---- MODULE Spec2Model ----
(***************************************************************************)
(* Energy Web Trigger: the poll orchestrator of EnergyWebTrigger.node.ts,  *)
(* its six event decoders and the poll cursor kept in the workflow static  *)
(* data.  One poll is a sequence of steps, one per transport call the code *)
(* awaits (eth_blockNumber, eth_getLogs, the EW Scan request, one          *)
(* eth_getBlockByNumber per block); everything the code does between two   *)
(* awaits is part of the step that ends the first one.                     *)
(***************************************************************************)
EXTENDS Integers, Sequences, FiniteSets, TLC

\* ------------------------------------------------------------------ bounds

\* Highest block number the chain node reports.
MaxHeight == 2

\* Largest number given to numberToHex.
MaxNumber == 300

\* The JSON-RPC ids the model tells apart: ids from MaxRequestId on are one
\* value.
MaxRequestId == 6

\* Most block fetches that fail in one poll of a long window.
MaxFailures == 2

\* slice(-1000) of the cursor update.
MaxProcessedTxHashes == 1000

\* Blocks fetched per batch by pollLargeTransfer.
batchSize == 10

\* ------------------------------------------------------------- value sets

TriggerTypes ==
  { "certificateIssued", "certificateTransferred", "didCreated",
    "didUpdated", "assetRegistered", "largeTransfer" }

LogTriggerTypes ==
  { "certificateIssued", "certificateTransferred", "didCreated", "didUpdated" }

\* A value of the triggerType parameter that is none of the six kinds.
UnknownTriggerType == "unknownKind"

\* lookbackBlocks values: none, one block, more than the whole chain.
LookbackValues == { 0, 1, MaxHeight + 1 }

\* A value of a parameter of type number: whole + tenths / 10.
Number(whole, tenths) == [whole |-> whole, tenths |-> tenths]

\* transferThreshold values, in EWT.
ThresholdValues == { Number(1, 0) }

\* transferThreshold values: half an EWT, one EWT, two EWT.
ThresholdChoices == { Number(0, 5), Number(1, 0), Number(2, 0) }

\* Values of Date.now().
Times == { 1, 2 }

Heights == 0 .. MaxHeight

Max(a, b) == IF a >= b THEN a ELSE b

Min(a, b) == IF a <= b THEN a ELSE b

Range(s) == { s[i] : i \in 1 .. Len(s) }

\* ------------------------------------------------------------ hex strings
\* A string is the sequence of its characters.

HexChars ==
  << "0", "1", "2", "3", "4", "5", "6", "7",
     "8", "9", "a", "b", "c", "d", "e", "f" >>

UpperHexChars == << "A", "B", "C", "D", "E", "F" >>

\* Value of one base-16 digit, -1 when the character is no digit.
DigitValue(c) ==
  IF \E i \in 1 .. 16 : HexChars[i] = c
    THEN (CHOOSE i \in 1 .. 16 : HexChars[i] = c) - 1
    ELSE IF \E i \in 1 .. 6 : UpperHexChars[i] = c
      THEN (CHOOSE i \in 1 .. 6 : UpperHexChars[i] = c) + 9
      ELSE -1

RECURSIVE ToString16(_)
\* Number.prototype.toString(16) of a non-negative integer.
ToString16(num) ==
  IF num < 16
    THEN << HexChars[num + 1] >>
    ELSE Append(ToString16(num \div 16), HexChars[(num % 16) + 1])

\* numberToHex: '0x' + num.toString(16)
numberToHex(num) == << "0", "x" >> \o ToString16(num)

RECURSIVE ParseDigits(_, _)
\* parseInt's digit loop: accumulates digits, stops at the first non-digit.
ParseDigits(chars, acc) ==
  IF chars = << >> \/ DigitValue(Head(chars)) < 0
    THEN acc
    ELSE ParseDigits(Tail(chars), acc * 16 + DigitValue(Head(chars)))

\* Faulty variant: parseInt(hex, 10), which stops at the x of the prefix.
hexToNumber_Decimal(hex) ==
  IF hex # << >> /\ hex[1] \in { "0", "1", "2", "3", "4", "5", "6", "7", "8", "9" }
    THEN DigitValue(hex[1])
    ELSE -1

\* hexToNumber: parseInt(hex, 16), which skips an optional 0x / 0X prefix.
\* Defined here for strings with at least one digit (parseInt gives NaN
\* otherwise).
hexToNumber(hex) ==
  IF Len(hex) >= 2 /\ hex[1] = "0" /\ hex[2] \in { "x", "X" }
    THEN ParseDigits(SubSeq(hex, 3, Len(hex)), 0)
    ELSE ParseDigits(hex, 0)

\* ------------------------------------------------------------- addresses
\* An address is '0x' followed by 40 hex digits; the 40 digits are one
\* token here.  A 32-byte topic or data word holding an address is 24
\* zero digits of padding followed by the 40 digits.

AddressDigits == { "aa", "AA", "bb", "BB", "cc" }

\* Digit tokens that are not 40 hex digits.
MalformedDigits == { "zz" }

PadWord(digits) == << "0x", "pad24", digits >>

\* str.slice(-40) of a 32-byte word
SliceLast40(word) == word[Len(word)]

\* data.slice(26, 66): the 40 digits of the first data word
Slice26to66(data) == data[3]

\* '0x' + digits
Prefix0x(digits) == << "0x", digits >>

\* String.prototype.toLowerCase on an address or on 'unknown'
toLowerCase(str) ==
  IF Len(str) = 2
    THEN << str[1],
            CASE str[2] = "AA" -> "aa"
              [] str[2] = "BB" -> "bb"
              [] OTHER -> str[2] >>
    ELSE str

\* Faulty variant: any 40 characters after 0x pass.
isValidAddress_AnyCharacters(address) ==
  /\ Len(address) = 2
  /\ address[1] = "0x"

\* isValidAddress: /^0x[a-fA-F0-9]{40}$/
isValidAddress(address) ==
  /\ Len(address) = 2
  /\ address[1] = "0x"
  /\ address[2] \in AddressDigits

\* The empty string.
EmptyString == << >>

unknown == << "unknown" >>

FilterValues == { EmptyString }

\* filterAddress values: none, three addresses in either case, and a string
\* that is no address.
FilterChoices ==
  { EmptyString, Prefix0x("aa"), Prefix0x("BB"), Prefix0x("cc") }
    \cup { Prefix0x(d) : d \in MalformedDigits }

\* ---------------------------------------------------------------- amounts
\* A wei amount (a BigInt in the code) is ewt * 10^18 + rem, with rem a
\* few wei above or below the multiple of 10^18.

Wei(ewt, rem) == [ewt |-> ewt, rem |-> rem]

\* a < b on BigInt
WeiLess(a, b) == a.ewt < b.ewt \/ (a.ewt = b.ewt /\ a.rem < b.rem)

\* BigInt(num) raises a RangeError for a number that is not an integer.
BigIntThrows(num) == num.tenths # 0

\* The message of that RangeError.
NotAnInteger(num) ==
  << "The number ", HexChars[num.whole + 1], ".", HexChars[num.tenths + 1],
     " cannot be converted to a BigInt because it is not an integer" >>

\* BigInt(threshold) * BigInt(10 ** 18), for an integer threshold
thresholdWei(threshold) == Wei(threshold.whole, 0)

\* ------------------------------------------------------------- the chain
\* What the chain node and the indexer serve.  The content of a block never
\* changes; a block holds no entry, two log entries of one transaction, or
\* more entries than the cursor keeps hashes.

Shapes == { "empty", "pair", "big" }

BigCount == MaxProcessedTxHashes + 1

\* Transaction hash of the k-th transaction of block blk.
TxHash(blk, k) == << blk, k >>

RawLog(blk, k, idx, d1, d2, d3, owner) ==
  [ address |-> Prefix0x("cc"),
    topics |-> << "eventTopic", PadWord(d1), PadWord(d2), PadWord(d3) >>,
    data |-> PadWord(owner),
    blockNumber |-> numberToHex(blk),
    transactionHash |-> TxHash(blk, k),
    logIndex |-> numberToHex(idx) ]

BlockLogs(ch, blk) ==
  CASE ch[blk] = "empty" -> << >>
    [] ch[blk] = "pair" ->
         << RawLog(blk, 1, 0, "aa", "AA", "bb", "AA"),
            RawLog(blk, 1, 1, "bb", "cc", "cc", "cc") >>
    [] ch[blk] = "big" ->
         [ k \in 1 .. BigCount |->
             RawLog(blk, Max(k - 1, 1), IF k = 2 THEN 1 ELSE 0,
                    "aa", "AA", "bb", "AA") ]

RawTx(blk, k, from, to, value) ==
  [ hash |-> TxHash(blk, k), from |-> Prefix0x(from), to |-> Prefix0x(to),
    value |-> value ]

BlockTxs(ch, blk) ==
  CASE ch[blk] = "empty" -> << >>
    [] ch[blk] = "pair" ->
         << RawTx(blk, 1, "aa", "BB", Wei(1, 0)),
            RawTx(blk, 2, "bb", "cc", Wei(1, -1)),
            RawTx(blk, 3, "cc", "cc", Wei(2, 0)),
            RawTx(blk, 4, "AA", "aa", Wei(2, -1)) >>
    [] ch[blk] = "big" ->
         [ k \in 1 .. BigCount |-> RawTx(blk, k, "aa", "BB", Wei(1, 1)) ]

RECURSIVE LogsInRange(_, _, _)
LogsInRange(ch, from, to) ==
  IF from > to THEN << >>
  ELSE BlockLogs(ch, from) \o LogsInRange(ch, from + 1, to)

\* The node's answer to eth_getLogs: the logs of the blocks of the range,
\* in block order and log order.
NodeGetLogs(ch, filter) ==
  LogsInRange(ch, hexToNumber(filter.fromBlock), hexToNumber(filter.toBlock))

\* The node's answer to eth_getBlockByNumber(hex, true).
NodeGetBlock(ch, hex) ==
  [ number |-> hex,
    timestamp |-> numberToHex(hexToNumber(hex)),
    transactions |-> BlockTxs(ch, hexToNumber(hex)) ]

\* The indexer's answer to /v1/logs: the same logs in its own field names.
EwScanItems(ch, query) ==
  LET logs == LogsInRange(ch, query.from_block, query.to_block)
  IN  [ i \in 1 .. Len(logs) |->
          [ address |-> logs[i].address,
            topics |-> logs[i].topics,
            data |-> logs[i].data,
            block_number |-> hexToNumber(logs[i].blockNumber),
            transaction_hash |-> logs[i].transactionHash,
            log_index |-> hexToNumber(logs[i].logIndex) ] ]

\* ------------------------------------------------------------- decoders

\* log.topics[i] ? '0x' + log.topics[i].slice(-40) : 'unknown'  (i from 0)
TopicAddress(log, i) ==
  IF Len(log.topics) >= i + 1
    THEN Prefix0x(SliceLast40(log.topics[i + 1]))
    ELSE unknown

\* filterAddress && isValidAddress(filterAddress)
FilterApplies(filter) == filter # EmptyString /\ isValidAddress(filter)

pollCertificateIssued(logs, filter) ==
  LET kept ==
        SelectSeq(logs, LAMBDA log :
          ~ ( FilterApplies(filter)
              /\ toLowerCase(TopicAddress(log, 2)) # toLowerCase(filter) ))
  IN  [ i \in 1 .. Len(kept) |->
          [ eventType |-> "certificateIssued",
            blockNumber |-> hexToNumber(kept[i].blockNumber),
            transactionHash |-> kept[i].transactionHash,
            logIndex |-> hexToNumber(kept[i].logIndex) ] ]

\* Faulty variant: only the sender is compared with the filter.
pollCertificateTransferred_FromOnly(logs, filter) ==
  LET kept ==
        SelectSeq(logs, LAMBDA log :
          ~ ( FilterApplies(filter)
              /\ toLowerCase(TopicAddress(log, 2)) # toLowerCase(filter) ))
  IN  [ i \in 1 .. Len(kept) |->
          [ eventType |-> "certificateTransferred",
            blockNumber |-> hexToNumber(kept[i].blockNumber),
            transactionHash |-> kept[i].transactionHash,
            logIndex |-> hexToNumber(kept[i].logIndex) ] ]

pollCertificateTransferred(logs, filter) ==
  LET kept ==
        SelectSeq(logs, LAMBDA log :
          ~ ( FilterApplies(filter)
              /\ toLowerCase(TopicAddress(log, 2)) # toLowerCase(filter)
              /\ toLowerCase(TopicAddress(log, 3)) # toLowerCase(filter) ))
  IN  [ i \in 1 .. Len(kept) |->
          [ eventType |-> "certificateTransferred",
            blockNumber |-> hexToNumber(kept[i].blockNumber),
            transactionHash |-> kept[i].transactionHash,
            logIndex |-> hexToNumber(kept[i].logIndex) ] ]

\* log.data ? '0x' + log.data.slice(26, 66) : 'unknown'
DataOwner(log) ==
  IF log.data # EmptyString THEN Prefix0x(Slice26to66(log.data)) ELSE unknown

\* Faulty variant: the comparison of identity and owner is left out.
pollDIDCreated_AnyOwner(logs, filter) ==
  LET kept ==
        SelectSeq(logs, LAMBDA log :
          ~ ( FilterApplies(filter)
              /\ toLowerCase(TopicAddress(log, 1)) # toLowerCase(filter) ))
  IN  [ i \in 1 .. Len(kept) |->
          [ eventType |-> "didCreated",
            blockNumber |-> hexToNumber(kept[i].blockNumber),
            transactionHash |-> kept[i].transactionHash,
            logIndex |-> hexToNumber(kept[i].logIndex) ] ]

pollDIDCreated(logs, filter) ==
  LET kept ==
        SelectSeq(logs, LAMBDA log :
          /\ toLowerCase(TopicAddress(log, 1)) = toLowerCase(DataOwner(log))
          /\ ~ ( FilterApplies(filter)
                 /\ toLowerCase(TopicAddress(log, 1)) # toLowerCase(filter) ))
  IN  [ i \in 1 .. Len(kept) |->
          [ eventType |-> "didCreated",
            blockNumber |-> hexToNumber(kept[i].blockNumber),
            transactionHash |-> kept[i].transactionHash,
            logIndex |-> hexToNumber(kept[i].logIndex) ] ]

pollDIDUpdated(logs, filter) ==
  LET kept ==
        SelectSeq(logs, LAMBDA log :
          ~ ( FilterApplies(filter)
              /\ toLowerCase(TopicAddress(log, 1)) # toLowerCase(filter) ))
  IN  [ i \in 1 .. Len(kept) |->
          [ eventType |-> "didUpdated",
            blockNumber |-> hexToNumber(kept[i].blockNumber),
            transactionHash |-> kept[i].transactionHash,
            logIndex |-> hexToNumber(kept[i].logIndex) ] ]

\* The loop over response.items of pollAssetRegistered.
pollAssetRegistered(items, filter) ==
  LET kept ==
        SelectSeq(items, LAMBDA log :
          ~ ( FilterApplies(filter)
              /\ toLowerCase(TopicAddress(log, 1)) # toLowerCase(filter) ))
  IN  [ i \in 1 .. Len(kept) |->
          [ eventType |-> "assetRegistered",
            blockNumber |-> kept[i].block_number,
            transactionHash |-> kept[i].transaction_hash,
            logIndex |-> kept[i].log_index ] ]

\* The loop over blockData.transactions of pollLargeTransfer.
LargeTransfersOfBlock(blockData, filter, threshold) ==
  LET kept ==
        SelectSeq(blockData.transactions, LAMBDA tx :
          /\ ~ WeiLess(tx.value, thresholdWei(threshold))
          /\ ~ ( FilterApplies(filter)
                 /\ toLowerCase(tx.from) # toLowerCase(filter)
                 /\ toLowerCase(tx.to) # toLowerCase(filter) ))
  IN  [ i \in 1 .. Len(kept) |->
          [ eventType |-> "largeTransfer",
            blockNumber |-> hexToNumber(blockData.number),
            transactionHash |-> kept[i].hash ] ]

\* The decoder the switch of poll selects for a log-based trigger type.
DecodeLogs(type, logs, filter) ==
  CASE type = "certificateIssued" -> pollCertificateIssued(logs, filter)
    [] type = "certificateTransferred" -> pollCertificateTransferred(logs, filter)
    [] type = "didCreated" -> pollDIDCreated(logs, filter)
    [] type = "didUpdated" -> pollDIDUpdated(logs, filter)

\* ------------------------------------------------------------ the state

VARIABLES
  chain,                \* the blocks the node and the indexer serve
  triggerType,          \* node parameter triggerType
  lookbackBlocks,       \* node parameter lookbackBlocks
  filterAddress,        \* node parameter filterAddress
  transferThreshold,    \* node parameter transferThreshold
  workflowStaticData,   \* the persisted cursor (getWorkflowStaticData('node'))
  licensingNoticeShown, \* module variable
  pc,                   \* the call the poll in flight awaits, or "idle"
  pollState,            \* poll's local: the cursor as read when the poll began
  currentBlock,         \* poll's local
  fromBlock,            \* poll's local
  block,                \* pollLargeTransfer's outer loop variable
  b,                    \* pollLargeTransfer's inner loop variable
  events,               \* pollLargeTransfer's local: events pushed so far
  result,               \* what the last poll gave the host
  requests,             \* the transport calls the poll has issued, in order
  failed,               \* the transport calls of the poll that raised
  lastHeight,           \* the height the node reported last while heightsAscend
  heightsAscend,        \* no reported height was below an earlier one
  emittedMax,           \* highest blockNumber of an event of an earlier poll
  thrown,               \* the errors that reached the catch of the poll
  failedBlocks,         \* the blocks whose eth_getBlockByNumber raised in the poll
  delivered,            \* the transactionHash values earlier polls returned
  call,                 \* the last call of a helper function
  rpcRequestId,         \* module variable of the RPC client
  issued,               \* the ids the last call of the RPC client gave out
  parked,               \* the other trigger instance, while this one runs
  running,              \* the trigger instance the poll variables belong to
  executeNoticeShown,   \* licensingNoticeShown of EnergyWeb.node.ts
  operation,            \* execute: node parameter
  continueOnFail,       \* execute: node setting
  inputData,            \* execute: the address parameter of every input item
  itemIndex,            \* execute: the loop variable i
  returnData,           \* execute's local
  executePc,            \* the call the execution in flight awaits, or "idle"
  executed              \* what the last execution gave the host

vars ==
  << chain, triggerType, lookbackBlocks, filterAddress, transferThreshold,
     workflowStaticData, licensingNoticeShown, pc, pollState, currentBlock,
     fromBlock, block, b, events, result, requests, failed, lastHeight,
     heightsAscend, emittedMax, thrown, failedBlocks, delivered, call,
     rpcRequestId, issued, parked, running, executeNoticeShown, operation,
     continueOnFail, inputData, itemIndex, returnData, executePc, executed >>

\* The variables of EnergyWeb.execute.
executeVars ==
  << executeNoticeShown, operation, continueOnFail, inputData, itemIndex,
     returnData, executePc, executed >>

config == << chain, triggerType, lookbackBlocks, filterAddress, transferThreshold >>

\* No other trigger instance.
NoInstance == [ instance |-> 0 ]

\* No execution of the EnergyWeb node so far.
NoOutput == [ status |-> "none", data |-> << >>, error |-> << >> ]

\* The module variables of the RPC client and of EnergyWeb.node.ts in a
\* process whose RPC client gives out nextId next, with one trigger instance
\* and no execution under way.
ModuleState(nextId) ==
  /\ rpcRequestId = nextId
  /\ issued = << >>
  /\ parked = NoInstance
  /\ running = 1
  /\ executeNoticeShown = FALSE
  /\ operation = "getBalance"
  /\ continueOnFail = FALSE
  /\ inputData = << >>
  /\ itemIndex = 0
  /\ returnData = << >>
  /\ executePc = "idle"
  /\ executed = NoOutput

\* The modules have just been loaded: let rpcRequestId = 1.
ProcessInit == ModuleState(1)

\* The RPC client has been in use by other callers before the first poll of
\* the trigger: the ids it gives out are not told apart.
UsedProcessInit == ModuleState(MaxRequestId)

\* Faulty variant: the requests of one call all carry the same id.
IssueIds_OnePerCall(n) ==
  /\ issued' = [ k \in 1 .. n |-> rpcRequestId ]
  /\ rpcRequestId' = Min(rpcRequestId + 1, MaxRequestId)

\* id: rpcRequestId++, for each of the n requests of one call of
\* executeRpcRequest (n = 1) or executeBatchRpcRequest.
IssueIds(n) ==
  /\ issued' = [ k \in 1 .. n |-> Min(rpcRequestId + k - 1, MaxRequestId) ]
  /\ rpcRequestId' = Min(rpcRequestId + n, MaxRequestId)

NoResult == [status |-> "none", batch |-> << >>, error |-> << >>]

\* return null
NullResult == [status |-> "null", batch |-> << >>, error |-> << >>]

\* ------------------------------------------------- the poll's computations

\* The cursor before the first poll, as poll reads it: every field is
\* absent and reads as its fallback (|| 0, || []).
InitialStaticData ==
  [lastBlockNumber |-> 0, lastTimestamp |-> 0, processedTxHashes |-> << >>]

\* Get poll state
ReadPollState(staticData) ==
  [ lastBlockNumber |->
      IF staticData.lastBlockNumber # 0 THEN staticData.lastBlockNumber ELSE 0,
    lastTimestamp |->
      IF staticData.lastTimestamp # 0 THEN staticData.lastTimestamp ELSE 0,
    processedTxHashes |-> staticData.processedTxHashes ]

\* A transport call: the method (or "ewScan" for the indexer) and what it asks.
Request(method, params) == [method |-> method, params |-> params]

\* Faulty variant: later polls start at the last block instead of after it.
ComputeFromBlock_RescanLast(lastBlockNumber, current, lookback) ==
  IF lastBlockNumber = 0
    THEN Max(0, current - lookback)
    ELSE lastBlockNumber

\* Faulty variant: the first poll looks back one block too few.
ComputeFromBlock_ShortLookback(lastBlockNumber, current, lookback) ==
  IF lastBlockNumber = 0
    THEN Max(0, current - lookback + 1)
    ELSE lastBlockNumber + 1

\* Calculate from block
ComputeFromBlock(lastBlockNumber, current, lookback) ==
  IF lastBlockNumber = 0
    THEN Max(0, current - lookback)
    ELSE lastBlockNumber + 1

\* Faulty variant: the check lets a window one block past the height through.
NoNewBlocks_OffByOne(from, current) == from > current + 1

\* Faulty variant: the check is missing, every window is scanned.
NoNewBlocks_NeverSkips(from, current) == FALSE

\* Skip if no new blocks
NoNewBlocks(from, current) == from > current

\* Faulty variant: of the events of one transaction only the first is kept.
FilterNewEvents_OncePerHash(evts, processedTxHashes) ==
  LET processed == Range(processedTxHashes)
      kept == SelectSeq(evts, LAMBDA e : e.transactionHash \notin processed)
      marked == [ i \in 1 .. Len(kept) |->
                    [ event |-> kept[i],
                      again |-> /\ i > 1
                                /\ kept[i - 1].transactionHash
                                     = kept[i].transactionHash ] ]
      firsts == SelectSeq(marked, LAMBDA m : ~ m.again)
  IN  [ i \in 1 .. Len(firsts) |-> firsts[i].event ]

\* Faulty variant: the events that are kept come out in reverse order.
FilterNewEvents_Reversed(evts, processedTxHashes) ==
  LET processed == Range(processedTxHashes)
      kept == SelectSeq(evts, LAMBDA e : e.transactionHash \notin processed)
  IN  [ i \in 1 .. Len(kept) |-> kept[Len(kept) - i + 1] ]

\* Faulty variant: nothing is filtered out.
FilterNewEvents_KeepAll(evts, processedTxHashes) == evts

\* Filter out already processed events
FilterNewEvents(evts, processedTxHashes) ==
  LET processed == Range(processedTxHashes)
  IN  SelectSeq(evts, LAMBDA e : e.transactionHash \notin processed)

\* .map((e) => e.json.transactionHash)
Hashes(evts) == [ i \in 1 .. Len(evts) |-> evts[i].transactionHash ]

\* .filter(Boolean) on strings: drops the empty ones
FilterBoolean(strs) == SelectSeq(strs, LAMBDA str : str # EmptyString)

\* Faulty variant: slice(0, n), which keeps the oldest entries.
SliceLast_KeepsFirst(seq, n) == SubSeq(seq, 1, Min(n, Len(seq)))

\* .slice(-n)
SliceLast(seq, n) == SubSeq(seq, Max(1, Len(seq) - n + 1), Len(seq))

\* Faulty variant: the cursor only advances when the poll has events.
UpdatedStaticData_OnlyOnEvents(state, current, now, newEvents) ==
  IF Len(newEvents) = 0
    THEN state
    ELSE [ lastBlockNumber |-> current,
           lastTimestamp |-> now,
           processedTxHashes |->
             SliceLast(FilterBoolean(Hashes(newEvents)), MaxProcessedTxHashes) ]

\* Update poll state
UpdatedStaticData(state, current, now, newEvents) ==
  [ lastBlockNumber |-> current,
    lastTimestamp |-> now,
    processedTxHashes |->
      SliceLast(FilterBoolean(Hashes(newEvents)), MaxProcessedTxHashes) ]

\* Faulty variant: no check for an empty batch.
PollReturn_AlwaysBatch(newEvents) ==
  [status |-> "batch", batch |-> newEvents, error |-> << >>]

\* if (newEvents.length === 0) return null; return [newEvents]
PollReturn(newEvents) ==
  IF Len(newEvents) = 0
    THEN NullResult
    ELSE [status |-> "batch", batch |-> newEvents, error |-> << >>]

\* Faulty variant: the log decoders swallow a failing eth_getLogs as well.
CaughtByDecoder_AlsoGetLogs(method) ==
  method \in { "ewScan", "eth_getBlockByNumber", "eth_getLogs" }

\* Faulty variant: pollAssetRegistered lets a failing indexer call through.
CaughtByDecoder_NotEwScan(method) == method \in { "eth_getBlockByNumber" }

\* The calls a decoder wraps in its own try / catch.
CaughtByDecoder(method) == method \in { "ewScan", "eth_getBlockByNumber" }

\* An Error object with its message.
ErrorOf(message) == [instanceofError |-> TRUE, message |-> message]

\* What executeRpcRequest and executeEwScanRequest raise: a NodeApiError
\* with the message of the failure.
TransportErrors ==
  { ErrorOf(<< "RPC request failed" >>), ErrorOf(<< "socket hang up" >>) }

\* error instanceof Error ? error.message : String(error)
CatchMessage(error) ==
  IF error.instanceofError THEN error.message ELSE << "String", error >>

\* Faulty variant: the message of the failure is dropped.
PollFailed_Generic(message) ==
  [status |-> "error", batch |-> << >>, error |-> << "Poll failed: " >>]

\* No helper function has been called.
NoCall == [fn |-> "none", input |-> 0, arg |-> 0, out |-> 0]

\* catch (error) { throw new NodeOperationError(..., `Poll failed: ${message}`) }
PollFailed(message) ==
  [status |-> "error", batch |-> << >>, error |-> << "Poll failed: ", message >>]

\* Faulty variant: the outer loop stops after its first batch.
NextBlock_FirstBatchOnly(blk, cur, toBlock) ==
  LET endBlock == Min(blk + batchSize - 1, toBlock)
  IN  IF cur + 1 <= endBlock
        THEN [block |-> blk, b |-> cur + 1, done |-> FALSE]
        ELSE [block |-> blk, b |-> cur, done |-> TRUE]

\* The steps of pollLargeTransfer's two nested loops after block b.
NextBlock(blk, cur, toBlock) ==
  LET endBlock == Min(blk + batchSize - 1, toBlock)
  IN  IF cur + 1 <= endBlock
        THEN [block |-> blk, b |-> cur + 1, done |-> FALSE]
        ELSE IF blk + batchSize <= toBlock
          THEN [block |-> blk + batchSize, b |-> blk + batchSize, done |-> FALSE]
          ELSE [block |-> blk, b |-> cur, done |-> TRUE]

MaxBlockNumber(evts, floor) ==
  IF evts = << >> THEN floor
  ELSE Max(floor, CHOOSE m \in { evts[i].blockNumber : i \in 1 .. Len(evts) } :
                    \A i \in 1 .. Len(evts) : evts[i].blockNumber <= m)

\* ----------------------------------------------------------------- steps

\* A chain with a block of more than MaxProcessedTxHashes entries is explored
\* with its other blocks empty and the first poll looking back over all of it.
ExploredChain(ch, lookback) ==
  \/ \A h \in Heights : ch[h] # "big"
  \/ /\ \E h \in Heights :
          ch[h] = "big" /\ \A g \in Heights \ { h } : ch[g] = "empty"
     /\ lookback = MaxHeight + 1

Init ==
  /\ chain \in [Heights -> Shapes]
  /\ triggerType \in TriggerTypes \cup { UnknownTriggerType }
  /\ lookbackBlocks \in LookbackValues
  /\ ExploredChain(chain, lookbackBlocks)
  /\ filterAddress \in FilterValues
  /\ transferThreshold \in ThresholdValues
  /\ workflowStaticData = InitialStaticData
  /\ licensingNoticeShown = FALSE
  /\ pc = "idle"
  /\ pollState = InitialStaticData
  /\ currentBlock = 0
  /\ fromBlock = 0
  /\ block = 0
  /\ b = 0
  /\ events = << >>
  /\ result = NoResult
  /\ requests = << >>
  /\ failed = { }
  /\ lastHeight = -1
  /\ heightsAscend = TRUE
  /\ emittedMax = -1
  /\ delivered = { }
  /\ thrown = << >>
  /\ failedBlocks = { }
  /\ call = NoCall
  /\ UsedProcessInit

\* The request the poll in flight awaits.
LastRequest == requests[Len(requests)]

\* The poll ends by raising: nothing is written.
Abort(error) ==
  /\ pc' = "idle"
  /\ thrown' = << error >>
  /\ result' = PollFailed(CatchMessage(error))
  /\ UNCHANGED << workflowStaticData, rpcRequestId, issued >>

\* Lines 247-265: dedup, cursor update, return.
Finish(evts, now) ==
  LET newEvents == FilterNewEvents(evts, pollState.processedTxHashes)
  IN  /\ workflowStaticData' =
           UpdatedStaticData(pollState, currentBlock, now, newEvents)
      /\ result' = PollReturn(newEvents)
      /\ events' = evts
      /\ pc' = "idle"
      /\ UNCHANGED << thrown, rpcRequestId, issued >>

\* poll() up to its first request: licensing notice, parameters, cursor read.
PollStart ==
  /\ pc = "idle"
  /\ licensingNoticeShown' = TRUE
  /\ pollState' = ReadPollState(workflowStaticData)
  /\ pc' = "eth_blockNumber"
  /\ requests' = << Request("eth_blockNumber", << >>) >>
  /\ IssueIds(1)
  /\ failed' = { }
  /\ currentBlock' = 0
  /\ fromBlock' = 0
  /\ block' = 0
  /\ b' = 0
  /\ events' = << >>
  /\ result' = NoResult
  /\ emittedMax' = MaxBlockNumber(result.batch, emittedMax)
  /\ delivered' = delivered \cup Range(Hashes(result.batch))
  /\ thrown' = << >>
  /\ failedBlocks' = { }
  /\ UNCHANGED << config, workflowStaticData, lastHeight, heightsAscend, call,
                  executeVars, parked, running >>

\* eth_blockNumber answers h: window, no-op check, dispatch to the decoder.
BlockNumberResponse(h) ==
  LET current == hexToNumber(numberToHex(h))
      from == ComputeFromBlock(pollState.lastBlockNumber, current, lookbackBlocks)
  IN  /\ pc = "eth_blockNumber"
      /\ currentBlock' = current
      /\ fromBlock' = from
      /\ heightsAscend' = (heightsAscend /\ h >= lastHeight)
      /\ lastHeight' = IF heightsAscend' THEN h ELSE -1
      /\ UNCHANGED << config, licensingNoticeShown, pollState, events, failed,
                      emittedMax, delivered, failedBlocks, call,
                  executeVars, parked, running >>
      /\ IF NoNewBlocks(from, current)
           THEN /\ pc' = "idle"
                /\ result' = NullResult
                /\ UNCHANGED << workflowStaticData, requests, block, b, thrown,
                                rpcRequestId, issued >>
           ELSE CASE triggerType \in LogTriggerTypes ->
                       /\ pc' = "eth_getLogs"
                       /\ requests' = Append(requests,
                            Request("eth_getLogs",
                                    << numberToHex(from), numberToHex(current) >>))
                       /\ IssueIds(1)
                       /\ UNCHANGED << workflowStaticData, result, block, b,
                                       thrown >>
                  [] triggerType = "assetRegistered" ->
                       /\ pc' = "ewScan"
                       /\ requests' = Append(requests,
                            Request("ewScan", << from, current >>))
                       /\ UNCHANGED << workflowStaticData, result, block, b,
                                       thrown, rpcRequestId, issued >>
                  [] triggerType = "largeTransfer" ->
                       IF BigIntThrows(transferThreshold)
                         THEN /\ Abort(ErrorOf(NotAnInteger(transferThreshold)))
                              /\ UNCHANGED << requests, block, b >>
                         ELSE /\ pc' = "eth_getBlockByNumber"
                              /\ requests' = Append(requests,
                                   Request("eth_getBlockByNumber",
                                           << numberToHex(from) >>))
                              /\ IssueIds(1)
                              /\ block' = from
                              /\ b' = from
                              /\ UNCHANGED << workflowStaticData, result, thrown >>
                  [] OTHER ->
                       /\ Abort(ErrorOf(<< "Unknown trigger type: ", triggerType >>))
                       /\ UNCHANGED << requests, block, b >>

\* A transport call raises: the decoder's catch swallows it, or the poll aborts.
\* eth_blockNumber raises.
BlockNumberFailure(error) ==
  /\ pc = "eth_blockNumber"
  /\ failed' = failed \cup { "eth_blockNumber" }
  /\ Abort(error)
  /\ UNCHANGED << config, licensingNoticeShown, pollState, currentBlock,
                  fromBlock, block, b, events, requests, lastHeight,
                  heightsAscend, emittedMax, delivered, failedBlocks, call,
                  executeVars, parked, running >>

\* eth_getLogs answers: the decoder's loop, then lines 247-265.
GetLogsResponse(now) ==
  /\ pc = "eth_getLogs"
  /\ Finish(DecodeLogs(triggerType,
                       NodeGetLogs(chain, [ fromBlock |-> LastRequest.params[1],
                                            toBlock |-> LastRequest.params[2] ]),
                       filterAddress), now)
  /\ UNCHANGED << config, licensingNoticeShown, pollState, currentBlock,
                  fromBlock, block, b, requests, failed, lastHeight,
                  heightsAscend, emittedMax, delivered, failedBlocks, call,
                  executeVars, parked, running >>

\* eth_getLogs raises.
GetLogsFailure(now, error) ==
  /\ pc = "eth_getLogs"
  /\ failed' = failed \cup { "eth_getLogs" }
  /\ IF CaughtByDecoder("eth_getLogs")
       THEN Finish(<< >>, now)
       ELSE Abort(error) /\ UNCHANGED events
  /\ UNCHANGED << config, licensingNoticeShown, pollState, currentBlock,
                  fromBlock, block, b, requests, lastHeight,
                  heightsAscend, emittedMax, delivered, failedBlocks, call,
                  executeVars, parked, running >>

\* The EW Scan request answers.
EwScanResponse(now) ==
  /\ pc = "ewScan"
  /\ Finish(pollAssetRegistered(
              EwScanItems(chain, [ from_block |-> LastRequest.params[1],
                                   to_block |-> LastRequest.params[2] ]),
              filterAddress), now)
  /\ UNCHANGED << config, licensingNoticeShown, pollState, currentBlock,
                  fromBlock, block, b, requests, failed, lastHeight,
                  heightsAscend, emittedMax, delivered, failedBlocks, call,
                  executeVars, parked, running >>

\* The EW Scan request raises.
EwScanFailure(now, error) ==
  /\ pc = "ewScan"
  /\ failed' = failed \cup { "ewScan" }
  /\ IF CaughtByDecoder("ewScan")
       THEN Finish(<< >>, now)
       ELSE Abort(error) /\ UNCHANGED events
  /\ UNCHANGED << config, licensingNoticeShown, pollState, currentBlock,
                  fromBlock, block, b, requests, lastHeight,
                  heightsAscend, emittedMax, delivered, failedBlocks, call,
                  executeVars, parked, running >>

\* Faulty variant: lastBlockNumber is saved after every block fetched.
AfterBlock_SavesEachBlock(evts, now) ==
  LET next == NextBlock(block, b, currentBlock)
  IN  IF next.done
        THEN /\ Finish(evts, now)
             /\ block' = 0
             /\ b' = 0
             /\ UNCHANGED requests
        ELSE /\ block' = next.block
             /\ b' = next.b
             /\ events' = evts
             /\ requests' = Append(requests,
                  Request("eth_getBlockByNumber", << numberToHex(next.b) >>))
             /\ IssueIds(1)
             /\ workflowStaticData' =
                  [workflowStaticData EXCEPT !.lastBlockNumber = b]
             /\ UNCHANGED << pc, result, thrown >>

\* After block b of pollLargeTransfer: the next fetch, or lines 247-265.
AfterBlock(evts, now) ==
  LET next == NextBlock(block, b, currentBlock)
  IN  IF next.done
        THEN /\ Finish(evts, now)
             /\ block' = 0
             /\ b' = 0
             /\ UNCHANGED requests
        ELSE /\ block' = next.block
             /\ b' = next.b
             /\ events' = evts
             /\ requests' = Append(requests,
                  Request("eth_getBlockByNumber", << numberToHex(next.b) >>))
             /\ IssueIds(1)
             /\ UNCHANGED << pc, workflowStaticData, result, thrown >>

\* eth_getBlockByNumber answers for block b.
GetBlockResponse(now) ==
  /\ pc = "eth_getBlockByNumber"
  /\ AfterBlock(events \o LargeTransfersOfBlock(
                            NodeGetBlock(chain, LastRequest.params[1]),
                            filterAddress, transferThreshold), now)
  /\ UNCHANGED << config, licensingNoticeShown, pollState, currentBlock,
                  fromBlock, failed, lastHeight, heightsAscend, emittedMax, delivered,
                  failedBlocks, call,
                  executeVars, parked, running >>

\* eth_getBlockByNumber raises for block b.
GetBlockFailure(now, error) ==
  /\ pc = "eth_getBlockByNumber"
  /\ failed' = failed \cup { "eth_getBlockByNumber" }
  /\ failedBlocks' = failedBlocks \cup { b }
  /\ IF CaughtByDecoder("eth_getBlockByNumber")
       THEN AfterBlock(events, now)
       ELSE /\ Abort(error)
            /\ block' = 0
            /\ b' = 0
            /\ events' = << >>
            /\ UNCHANGED requests
  /\ UNCHANGED << config, licensingNoticeShown, pollState, currentBlock,
                  fromBlock, lastHeight, heightsAscend, emittedMax, delivered, call,
                  executeVars, parked, running >>

Next ==
  \/ PollStart
  \/ \E h \in Heights : BlockNumberResponse(h)
  \/ \E error \in TransportErrors : BlockNumberFailure(error)
  \/ \E now \in Times : GetLogsResponse(now)
  \/ \E now \in Times, error \in TransportErrors : GetLogsFailure(now, error)
  \/ \E now \in Times : EwScanResponse(now)
  \/ \E now \in Times, error \in TransportErrors : EwScanFailure(now, error)
  \/ \E now \in Times : GetBlockResponse(now)
  \/ \E now \in Times, error \in TransportErrors : GetBlockFailure(now, error)

Spec == Init /\ [][Next]_vars

\* The same node with every kind of filterAddress and of transferThreshold,
\* on chains of small blocks that the first poll looks back over entirely.
ConfigInit ==
  /\ chain \in [Heights -> { "empty", "pair" }]
  /\ triggerType \in TriggerTypes
  /\ lookbackBlocks = MaxHeight + 1
  /\ filterAddress \in FilterChoices
  /\ transferThreshold \in
       IF triggerType = "largeTransfer" THEN ThresholdChoices ELSE ThresholdValues
  /\ workflowStaticData = InitialStaticData
  /\ licensingNoticeShown = FALSE
  /\ pc = "idle"
  /\ pollState = InitialStaticData
  /\ currentBlock = 0
  /\ fromBlock = 0
  /\ block = 0
  /\ b = 0
  /\ events = << >>
  /\ result = NoResult
  /\ requests = << >>
  /\ failed = { }
  /\ lastHeight = -1
  /\ heightsAscend = TRUE
  /\ emittedMax = -1
  /\ delivered = { }
  /\ thrown = << >>
  /\ failedBlocks = { }
  /\ call = NoCall
  /\ UsedProcessInit

ConfigSpec == ConfigInit /\ [][Next]_vars

\* --------------------------------------------------- long windows
\* largeTransfer polls over windows of about batchSize blocks, with a
\* bounded number of failing block fetches per poll.

\* Block numbers of a chain longer than one batch.
BatchHeights == 0 .. batchSize + 1

\* Heights the node reports: a window of exactly one batch, and of one
\* batch and one or two blocks more.
TallHeights == { batchSize - 1, batchSize, batchSize + 1 }

BatchInit ==
  /\ chain \in { [ h \in BatchHeights |->
                     IF h = 0 \/ (h = batchSize - 1 /\ last)
                          \/ (h = batchSize /\ first)
                       THEN "pair" ELSE "empty" ] :
                  last \in BOOLEAN, first \in BOOLEAN }
  /\ triggerType = "largeTransfer"
  /\ lookbackBlocks = batchSize + 2
  /\ filterAddress = EmptyString
  /\ transferThreshold \in ThresholdValues
  /\ workflowStaticData = InitialStaticData
  /\ licensingNoticeShown = FALSE
  /\ pc = "idle"
  /\ pollState = InitialStaticData
  /\ currentBlock = 0
  /\ fromBlock = 0
  /\ block = 0
  /\ b = 0
  /\ events = << >>
  /\ result = NoResult
  /\ requests = << >>
  /\ failed = { }
  /\ lastHeight = -1
  /\ heightsAscend = TRUE
  /\ emittedMax = -1
  /\ delivered = { }
  /\ thrown = << >>
  /\ failedBlocks = { }
  /\ call = NoCall
  /\ UsedProcessInit

BatchNext ==
  \/ PollStart
  \/ \E h \in TallHeights : BlockNumberResponse(h)
  \/ \E error \in TransportErrors : BlockNumberFailure(error)
  \/ \E now \in Times : GetBlockResponse(now)
  \/ \E now \in Times, error \in TransportErrors :
       Cardinality(failedBlocks) < MaxFailures /\ GetBlockFailure(now, error)

BatchSpec == BatchInit /\ [][BatchNext]_vars

\* ---------------------------------------------------- decimal strings
\* The unit helpers work on BigInt values and their decimal strings.  A
\* non-negative BigInt is kept as the sequence of its decimal digits, without
\* leading zeros.

DecChars == << "0", "1", "2", "3", "4", "5", "6", "7", "8", "9" >>

DecValue(c) == (CHOOSE i \in 1 .. 10 : DecChars[i] = c) - 1

Zeros(n) == [ i \in 1 .. n |-> "0" ]

\* Wei conversion factors
WEI_UNITS ==
  [ gwei |-> << "1" >> \o Zeros(9), ewt |-> << "1" >> \o Zeros(18) ]

\* The decimal places formatEwt pads to and ewtToWei pads or cuts to.
EwtDecimals == 18

\* BigInt(str) of a string of decimal digits; BigInt('') is 0n.
BigInt(str) ==
  IF \A i \in 1 .. Len(str) : str[i] = "0"
    THEN << "0" >>
    ELSE SubSeq(str, CHOOSE i \in 1 .. Len(str) :
                       str[i] # "0" /\ \A j \in 1 .. i - 1 : str[j] = "0",
                Len(str))

\* x / divisor on BigInt, for a divisor that is a power of ten.
BigDiv(x, divisor) ==
  LET k == Len(divisor) - 1
  IN  IF Len(x) <= k THEN << "0" >> ELSE SubSeq(x, 1, Len(x) - k)

\* x % divisor on BigInt, for a divisor that is a power of ten.
BigMod(x, divisor) ==
  LET k == Len(divisor) - 1
  IN  BigInt(SubSeq(x, Max(1, Len(x) - k + 1), Len(x)))

\* x * factor on BigInt, for a factor that is a power of ten.
BigMul(x, factor) ==
  IF x = << "0" >> THEN x ELSE x \o Zeros(Len(factor) - 1)

\* x + y on BigInt.
BigAdd(x, y) ==
  LET n == Max(Len(x), Len(y))
      dx(i) == IF i <= Len(x) THEN DecValue(x[Len(x) - i + 1]) ELSE 0
      dy(i) == IF i <= Len(y) THEN DecValue(y[Len(y) - i + 1]) ELSE 0
      carry[ i \in 0 .. n ] ==
        IF i = 0 THEN 0 ELSE (dx(i) + dy(i) + carry[i - 1]) \div 10
      digits == [ j \in 1 .. n |->
                  DecChars[((dx(n - j + 1) + dy(n - j + 1) + carry[n - j]) % 10) + 1] ]
  IN  IF carry[n] = 1 THEN << "1" >> \o digits ELSE digits

\* str.padStart(n, c)
padStart(str, n, c) ==
  IF Len(str) >= n THEN str ELSE [ i \in 1 .. n - Len(str) |-> c ] \o str

\* str.padEnd(n, c)
padEnd(str, n, c) ==
  IF Len(str) >= n THEN str ELSE str \o [ i \in 1 .. n - Len(str) |-> c ]

\* str.replace(/0+$/, '')
StripTrailingZeros(str) ==
  IF \A i \in 1 .. Len(str) : str[i] = "0"
    THEN << >>
    ELSE SubSeq(str, 1, CHOOSE i \in 1 .. Len(str) :
                          str[i] # "0" /\ \A j \in i + 1 .. Len(str) : str[j] = "0")

\* str.split('.'), as far as its first two parts
split(str) ==
  LET dots == { i \in 1 .. Len(str) : str[i] = "." }
      first == CHOOSE i \in dots : \A j \in dots : i <= j
      later == { i \in dots : i > first }
      second == IF later = { } THEN Len(str) + 1
                ELSE CHOOSE i \in later : \A j \in later : i <= j
  IN  IF dots = { } THEN << str >>
      ELSE << SubSeq(str, 1, first - 1), SubSeq(str, first + 1, second - 1) >>

\* Faulty variant: the remainder is not padded to 18 places.
formatEwt_NoPad(wei, divisor) ==
  LET whole == BigDiv(wei, divisor)
      remainder == BigMod(wei, divisor)
  IN  IF remainder = << "0" >>
        THEN whole
        ELSE whole \o << "." >> \o StripTrailingZeros(remainder)

\* Format EWT with decimal precision
formatEwt(wei, divisor) ==
  LET whole == BigDiv(wei, divisor)
      remainder == BigMod(wei, divisor)
  IN  IF remainder = << "0" >>
        THEN whole
        ELSE whole \o << "." >>
               \o StripTrailingZeros(padStart(remainder, EwtDecimals, "0"))

\* Convert Wei to various units
weiToUnits(weiValue) ==
  LET wei == BigInt(weiValue)
      gweiDivisor == BigInt(WEI_UNITS.gwei)
      ewtDivisor == BigInt(WEI_UNITS.ewt)
  IN  [ wei |-> wei,
        gwei |-> BigDiv(wei, gweiDivisor),
        ewt |-> formatEwt(wei, ewtDivisor) ]

\* Convert EWT to Wei
ewtToWei(ewt) ==
  LET parts == split(ewt)
      whole == IF parts[1] # << >> THEN parts[1] ELSE << "0" >>
      decimals0 == IF Len(parts) >= 2 THEN parts[2] ELSE << >>
      decimals == SubSeq(padEnd(decimals0, EwtDecimals, "0"), 1, EwtDecimals)
  IN  BigAdd(BigMul(BigInt(whole), BigInt(WEI_UNITS.ewt)), BigInt(decimals))

\* Whole EWT of the amounts converted: none, 1, 42, 100.
WholeParts == { << >>, << "1" >>, << "4", "2" >>, << "1", "0", "0" >> }

\* The 18 decimal places of the amounts converted: all zero, a single 1 or 5
\* at any place, all different, all nines.
FractionParts ==
  { Zeros(EwtDecimals) }
    \cup { [ i \in 1 .. EwtDecimals |-> IF i = place THEN d ELSE "0" ] :
             place \in 1 .. EwtDecimals, d \in { "1", "5" } }
    \cup { [ i \in 1 .. EwtDecimals |-> DecChars[(i % 10) + 1] ],
           [ i \in 1 .. EwtDecimals |-> "9" ] }

\* Wei amounts, as decimal strings.
WeiInputs == { BigInt(w \o f) : w \in WholeParts, f \in FractionParts }

\* ------------------------------------------------ the helper functions
\* Calls of the exported helper functions, outside any poll.

pollVars ==
  << chain, triggerType, lookbackBlocks, filterAddress, transferThreshold,
     workflowStaticData, licensingNoticeShown, pc, pollState, currentBlock,
     fromBlock, block, b, events, result, requests, failed, lastHeight,
     heightsAscend, emittedMax, thrown, failedBlocks, delivered,
     rpcRequestId, issued, parked, running, executeVars >>

HelperInit ==
  /\ chain = [ h \in Heights |-> "empty" ]
  /\ triggerType = "certificateIssued"
  /\ lookbackBlocks = 0
  /\ filterAddress = EmptyString
  /\ transferThreshold = Number(1, 0)
  /\ workflowStaticData = InitialStaticData
  /\ licensingNoticeShown = FALSE
  /\ pc = "idle"
  /\ pollState = InitialStaticData
  /\ currentBlock = 0
  /\ fromBlock = 0
  /\ block = 0
  /\ b = 0
  /\ events = << >>
  /\ result = NoResult
  /\ requests = << >>
  /\ failed = { }
  /\ lastHeight = -1
  /\ heightsAscend = TRUE
  /\ emittedMax = -1
  /\ delivered = { }
  /\ thrown = << >>
  /\ failedBlocks = { }
  /\ call = NoCall
  /\ UsedProcessInit

\* numberToHex(num)
CallNumberToHex(num) ==
  /\ call' = [ fn |-> "numberToHex", input |-> num, arg |-> num,
               out |-> numberToHex(num) ]
  /\ UNCHANGED pollVars

\* hexToNumber of what numberToHex returned
CallHexToNumber ==
  /\ call.fn = "numberToHex"
  /\ call' = [ fn |-> "hexToNumber", input |-> call.input, arg |-> call.out,
               out |-> hexToNumber(call.out) ]
  /\ UNCHANGED pollVars

\* weiToUnits(weiValue)
CallWeiToUnits(weiValue) ==
  /\ call' = [ fn |-> "weiToUnits", input |-> weiValue, arg |-> weiValue,
               out |-> weiToUnits(weiValue) ]
  /\ UNCHANGED pollVars

\* ewtToWei of the ewt string weiToUnits returned
CallEwtToWei ==
  /\ call.fn = "weiToUnits"
  /\ call' = [ fn |-> "ewtToWei", input |-> call.input, arg |-> call.out.ewt,
               out |-> ewtToWei(call.out.ewt) ]
  /\ UNCHANGED pollVars

HelperNext ==
  \/ \E num \in 0 .. MaxNumber : CallNumberToHex(num)
  \/ CallHexToNumber
  \/ \E weiValue \in WeiInputs : CallWeiToUnits(weiValue)
  \/ CallEwtToWei

HelperSpec == HelperInit /\ [][HelperNext]_vars

\* A trigger instance before its first poll, and the process around it.
PollInit ==
  /\ workflowStaticData = InitialStaticData
  /\ licensingNoticeShown = FALSE
  /\ pc = "idle"
  /\ pollState = InitialStaticData
  /\ currentBlock = 0
  /\ fromBlock = 0
  /\ block = 0
  /\ b = 0
  /\ events = << >>
  /\ result = NoResult
  /\ requests = << >>
  /\ failed = { }
  /\ lastHeight = -1
  /\ heightsAscend = TRUE
  /\ emittedMax = -1
  /\ thrown = << >>
  /\ failedBlocks = { }
  /\ delivered = { }
  /\ call = NoCall

\* ------------------------------------------------- the action node
\* EnergyWeb.execute with resource accounts: one step per transport call it
\* awaits.  getBalance checks the address parameter of the item and sends one
\* eth_getBalance request; any other operation name falls to the default
\* branch of the switch.

\* Most input items of one execution.
MaxItems == 3

\* The address parameter of an input item: well formed or not.
ItemAddresses == { Prefix0x("aa"), Prefix0x("zz") }

Operations == { "getBalance", "unknownOperation" }

\* What the node answers to eth_getBalance.
Balances == { numberToHex(0), numberToHex(26) }

InputLists == UNION { [1 .. n -> ItemAddresses] : n \in 0 .. MaxItems }

\* The variables of the trigger instances.
triggerVars ==
  << chain, triggerType, lookbackBlocks, filterAddress, transferThreshold,
     workflowStaticData, licensingNoticeShown, pc, pollState, currentBlock,
     fromBlock, block, b, events, result, requests, failed, lastHeight,
     heightsAscend, emittedMax, thrown, failedBlocks, delivered, parked,
     running >>

RECURSIVE ToString10(_)
\* BigInt.prototype.toString() of a non-negative integer.
ToString10(num) ==
  IF num < 10
    THEN << DecChars[num + 1] >>
    ELSE Append(ToString10(num \div 10), DecChars[(num % 10) + 1])

\* What getBalance returns for an item.
BalanceRecord(address, balanceHex) ==
  LET balanceWei == ToString10(hexToNumber(balanceHex))
  IN  [ json |-> [ address |-> address,
                   balance |-> balanceWei,
                   balanceEwt |-> weiToUnits(balanceWei).ewt ] ]

\* Faulty variant: the error record is paired with the item after i.
ErrorRecord_NextItem(error, i) ==
  [ json |-> [ error |-> CatchMessage(error) ],
    pairedItem |-> [ item |-> i + 1 ] ]

\* What the catch of execute pushes for item i when continueOnFail is on.
ErrorRecord(error, i) ==
  [ json |-> [ error |-> CatchMessage(error) ],
    pairedItem |-> [ item |-> i ] ]

\* The error the operation raises for an item before any request: none, or
\* one.
OperationError(op, address) ==
  CASE op # "getBalance" ->
         << ErrorOf(<< "Unknown accounts operation: ", op >>) >>
    [] ~ isValidAddress(address) ->
         << ErrorOf(<< "Invalid Ethereum address format" >>) >>
    [] OTHER -> << >>

RECURSIVE RunItems(_, _, _, _, _)
\* The for loop of execute from item i (counted from 0) up to its next
\* await, its end or the error it rethrows.
RunItems(op, continue, data, i, pushed) ==
  IF i >= Len(data)
    THEN [ status |-> "done", itemIndex |-> i, returnData |-> pushed,
           error |-> << >> ]
    ELSE LET raised == OperationError(op, data[i + 1])
         IN  CASE raised = << >> ->
                    [ status |-> "await", itemIndex |-> i,
                      returnData |-> pushed, error |-> << >> ]
               [] raised # << >> /\ continue ->
                    RunItems(op, continue, data, i + 1,
                             Append(pushed, ErrorRecord(raised[1], i)))
               [] OTHER ->
                    [ status |-> "throw", itemIndex |-> i,
                      returnData |-> pushed, error |-> raised ]

\* The loop has stopped: at a request, at return [returnData] or at a throw.
Settle(run) ==
  /\ itemIndex' = run.itemIndex
  /\ returnData' = run.returnData
  /\ CASE run.status = "await" ->
             /\ executePc' = "eth_getBalance"
             /\ executed' = NoOutput
             /\ IssueIds(1)
       [] run.status = "done" ->
             /\ executePc' = "idle"
             /\ executed' = [ status |-> "output", data |-> run.returnData,
                              error |-> << >> ]
             /\ UNCHANGED << rpcRequestId, issued >>
       [] run.status = "throw" ->
             /\ executePc' = "idle"
             /\ executed' = [ status |-> "error", data |-> << >>,
                              error |-> run.error ]
             /\ UNCHANGED << rpcRequestId, issued >>

\* execute() up to its first request, or to its end.
Execute(op, continue, data) ==
  /\ executePc = "idle"
  /\ executeNoticeShown' = TRUE
  /\ operation' = op
  /\ continueOnFail' = continue
  /\ inputData' = data
  /\ Settle(RunItems(op, continue, data, 0, << >>))
  /\ UNCHANGED << triggerVars, call >>

\* eth_getBalance answers for item i.
GetBalanceResponse(balanceHex) ==
  /\ executePc = "eth_getBalance"
  /\ Settle(RunItems(operation, continueOnFail, inputData, itemIndex + 1,
                     Append(returnData,
                            BalanceRecord(inputData[itemIndex + 1],
                                          balanceHex))))
  /\ UNCHANGED << executeNoticeShown, operation, continueOnFail, inputData,
                  triggerVars, call >>

\* eth_getBalance raises for item i.
GetBalanceFailure(error) ==
  /\ executePc = "eth_getBalance"
  /\ IF continueOnFail
       THEN Settle(RunItems(operation, continueOnFail, inputData,
                            itemIndex + 1,
                            Append(returnData, ErrorRecord(error, itemIndex))))
       ELSE Settle([ status |-> "throw", itemIndex |-> itemIndex,
                     returnData |-> returnData, error |-> << error >> ])
  /\ UNCHANGED << executeNoticeShown, operation, continueOnFail, inputData,
                  triggerVars, call >>

ExecuteInit ==
  /\ chain = [ h \in Heights |-> "empty" ]
  /\ triggerType = "certificateIssued"
  /\ lookbackBlocks = 0
  /\ filterAddress = EmptyString
  /\ transferThreshold = Number(1, 0)
  /\ PollInit
  /\ ProcessInit

ExecuteNext ==
  \/ \E op \in Operations, continue \in BOOLEAN, data \in InputLists :
       Execute(op, continue, data)
  \/ \E balanceHex \in Balances : GetBalanceResponse(balanceHex)
  \/ \E error \in TransportErrors : GetBalanceFailure(error)

ExecuteSpec == ExecuteInit /\ [][ExecuteNext]_vars

\* --------------------------------------------------- the RPC client
\* Calls of executeRpcRequest and executeBatchRpcRequest by other callers in
\* the process, while a poll of the trigger and an execution of the action
\* node are under way.  Each call builds its request body, ids included,
\* before it awaits the transport.

\* Most requests in one call of executeBatchRpcRequest.
MaxBatchSize == 2

\* A call of the RPC client awaits the transport.
Pending ==
  /\ call.fn \in { "executeRpcRequest", "executeBatchRpcRequest" }
  /\ call.out = << "pending" >>

\* executeRpcRequest up to its await.
CallExecuteRpcRequest ==
  /\ ~ Pending
  /\ IssueIds(1)
  /\ call' = [ fn |-> "executeRpcRequest", input |-> 1,
               arg |-> << rpcRequestId >>, out |-> << "pending" >> ]
  /\ UNCHANGED << triggerVars, executeVars >>

\* executeBatchRpcRequest with n requests, up to its await.
CallExecuteBatchRpcRequest(n) ==
  /\ ~ Pending
  /\ IssueIds(n)
  /\ call' = [ fn |-> "executeBatchRpcRequest", input |-> n,
               arg |-> [ k \in 1 .. n |-> rpcRequestId + k - 1 ],
               out |-> << "pending" >> ]
  /\ UNCHANGED << triggerVars, executeVars >>

\* The transport answers the call: the result is returned.
RpcResponse ==
  /\ Pending
  /\ call' = [ call EXCEPT !.out = << "result" >> ]
  /\ UNCHANGED << triggerVars, executeVars, rpcRequestId, issued >>

\* The transport raises, or the answer holds an error: NodeApiError.
RpcFailure(error) ==
  /\ Pending
  /\ call' = [ call EXCEPT !.out = << "NodeApiError", error.message >> ]
  /\ UNCHANGED << triggerVars, executeVars, rpcRequestId, issued >>

RpcInit ==
  /\ chain = [ h \in Heights |-> "pair" ]
  /\ triggerType = "certificateIssued"
  /\ lookbackBlocks = MaxHeight + 1
  /\ filterAddress = EmptyString
  /\ transferThreshold = Number(1, 0)
  /\ PollInit
  /\ ProcessInit

\* The ids below MaxRequestId are told apart: a call is followed while the
\* ids it takes are among them.
RpcNext ==
  \/ rpcRequestId < MaxRequestId /\ PollStart
  \/ rpcRequestId < MaxRequestId /\ BlockNumberResponse(MaxHeight)
  \/ \E error \in TransportErrors : BlockNumberFailure(error)
  \/ \E now \in Times : GetLogsResponse(now)
  \/ \E now \in Times, error \in TransportErrors : GetLogsFailure(now, error)
  \/ /\ rpcRequestId < MaxRequestId
     /\ \E continue \in BOOLEAN :
          Execute("getBalance", continue, << Prefix0x("aa"), Prefix0x("aa") >>)
  \/ rpcRequestId < MaxRequestId /\ GetBalanceResponse(numberToHex(0))
  \/ /\ rpcRequestId < MaxRequestId
     /\ \E error \in TransportErrors : GetBalanceFailure(error)
  \/ rpcRequestId < MaxRequestId /\ CallExecuteRpcRequest
  \/ \E n \in 0 .. MaxBatchSize :
       rpcRequestId + n <= MaxRequestId /\ CallExecuteBatchRpcRequest(n)
  \/ RpcResponse
  \/ \E error \in TransportErrors : RpcFailure(error)

RpcSpec == RpcInit /\ [][RpcNext]_vars

\* ------------------------------------------- two trigger instances
\* The polls of two trigger instances interleave at their awaits.  The poll
\* variables are those of the instance that runs; the other instance is
\* parked.  The module variables licensingNoticeShown and rpcRequestId are
\* the same for both.

\* What belongs to the trigger instance whose poll variables are at hand:
\* its node parameters, its cursor in the workflow static data, the locals
\* of its poll and what is recorded of its polls.
InstanceState(instance) ==
  [ instance |-> instance,
    triggerType |-> triggerType,
    lookbackBlocks |-> lookbackBlocks,
    filterAddress |-> filterAddress,
    transferThreshold |-> transferThreshold,
    workflowStaticData |-> workflowStaticData,
    pc |-> pc,
    pollState |-> pollState,
    currentBlock |-> currentBlock,
    fromBlock |-> fromBlock,
    block |-> block,
    b |-> b,
    events |-> events,
    result |-> result,
    requests |-> requests,
    failed |-> failed,
    lastHeight |-> lastHeight,
    heightsAscend |-> heightsAscend,
    emittedMax |-> emittedMax,
    thrown |-> thrown,
    failedBlocks |-> failedBlocks,
    delivered |-> delivered ]

\* A trigger instance with its parameters, before its first poll.
NewInstance(instance, type, lookback) ==
  [ instance |-> instance,
    triggerType |-> type,
    lookbackBlocks |-> lookback,
    filterAddress |-> EmptyString,
    transferThreshold |-> Number(1, 0),
    workflowStaticData |-> InitialStaticData,
    pc |-> "idle",
    pollState |-> InitialStaticData,
    currentBlock |-> 0,
    fromBlock |-> 0,
    block |-> 0,
    b |-> 0,
    events |-> << >>,
    result |-> NoResult,
    requests |-> << >>,
    failed |-> { },
    lastHeight |-> -1,
    heightsAscend |-> TRUE,
    emittedMax |-> -1,
    thrown |-> << >>,
    failedBlocks |-> { },
    delivered |-> { } ]

\* Faulty variant: the two instances have one cursor.
Switch_SharedCursor ==
  /\ parked.instance # 0
  /\ parked' = InstanceState(running)
  /\ running' = parked.instance
  /\ triggerType' = parked.triggerType
  /\ lookbackBlocks' = parked.lookbackBlocks
  /\ filterAddress' = parked.filterAddress
  /\ transferThreshold' = parked.transferThreshold
  /\ pc' = parked.pc
  /\ pollState' = parked.pollState
  /\ currentBlock' = parked.currentBlock
  /\ fromBlock' = parked.fromBlock
  /\ block' = parked.block
  /\ b' = parked.b
  /\ events' = parked.events
  /\ result' = parked.result
  /\ requests' = parked.requests
  /\ failed' = parked.failed
  /\ lastHeight' = parked.lastHeight
  /\ heightsAscend' = parked.heightsAscend
  /\ emittedMax' = parked.emittedMax
  /\ thrown' = parked.thrown
  /\ failedBlocks' = parked.failedBlocks
  /\ delivered' = parked.delivered
  /\ UNCHANGED << chain, workflowStaticData, licensingNoticeShown, call,
                  rpcRequestId, issued, executeVars >>

\* The host goes from the poll of one trigger instance to the poll of the
\* other: at an await of the poll, or between two polls.
Switch ==
  /\ parked.instance # 0
  /\ parked' = InstanceState(running)
  /\ running' = parked.instance
  /\ triggerType' = parked.triggerType
  /\ lookbackBlocks' = parked.lookbackBlocks
  /\ filterAddress' = parked.filterAddress
  /\ transferThreshold' = parked.transferThreshold
  /\ workflowStaticData' = parked.workflowStaticData
  /\ pc' = parked.pc
  /\ pollState' = parked.pollState
  /\ currentBlock' = parked.currentBlock
  /\ fromBlock' = parked.fromBlock
  /\ block' = parked.block
  /\ b' = parked.b
  /\ events' = parked.events
  /\ result' = parked.result
  /\ requests' = parked.requests
  /\ failed' = parked.failed
  /\ lastHeight' = parked.lastHeight
  /\ heightsAscend' = parked.heightsAscend
  /\ emittedMax' = parked.emittedMax
  /\ thrown' = parked.thrown
  /\ failedBlocks' = parked.failedBlocks
  /\ delivered' = parked.delivered
  /\ UNCHANGED << chain, licensingNoticeShown, call, rpcRequestId, issued,
                  executeVars >>

\* Two trigger instances of one process, for different trigger types.
IsolationInit ==
  /\ chain = [ h \in Heights |-> "pair" ]
  /\ triggerType = "certificateIssued"
  /\ lookbackBlocks = MaxHeight + 1
  /\ filterAddress = EmptyString
  /\ transferThreshold = Number(1, 0)
  /\ PollInit
  /\ rpcRequestId = 1
  /\ issued = << >>
  /\ parked = NewInstance(2, "didCreated", 0)
  /\ running = 1
  /\ executeNoticeShown = FALSE
  /\ operation = "getBalance"
  /\ continueOnFail = FALSE
  /\ inputData = << >>
  /\ itemIndex = 0
  /\ returnData = << >>
  /\ executePc = "idle"
  /\ executed = NoOutput

IsolationNext ==
  \/ PollStart
  \/ \E h \in Heights : BlockNumberResponse(h)
  \/ BlockNumberFailure(ErrorOf(<< "RPC request failed" >>))
  \/ \E now \in Times : GetLogsResponse(now)
  \/ GetLogsFailure(1, ErrorOf(<< "RPC request failed" >>))
  \/ Switch

IsolationSpec == IsolationInit /\ [][IsolationNext]_vars

\* ------------------------------------------- an edited trigger node
\* The triggerType parameter is read anew by every poll, and the cursor in
\* the workflow static data outlives a change of the parameter: a poll for
\* one trigger type may find the cursor polls for another type have left.

EditInit ==
  /\ chain \in [Heights -> { "empty", "pair" }]
  /\ triggerType = "certificateIssued"
  /\ lookbackBlocks \in LookbackValues
  /\ filterAddress = EmptyString
  /\ transferThreshold \in ThresholdValues
  /\ PollInit
  /\ ProcessInit

\* Between two polls the triggerType parameter of the node is set to type.
\* Nothing of the polls before is left but the cursor and the module
\* variables.
SetTriggerType(type) ==
  /\ pc = "idle"
  /\ triggerType # type
  /\ triggerType' = type
  /\ requests' = << >>
  /\ result' = NoResult
  /\ failed' = { }
  /\ thrown' = << >>
  /\ emittedMax' = MaxBlockNumber(result.batch, emittedMax)
  /\ delivered' = delivered \cup Range(Hashes(result.batch))
  /\ UNCHANGED << chain, lookbackBlocks, filterAddress, transferThreshold,
                  workflowStaticData, licensingNoticeShown, pc, pollState,
                  currentBlock, fromBlock, block, b, events, lastHeight,
                  heightsAscend, failedBlocks, call, rpcRequestId, issued,
                  parked, running, executeVars >>

EditNext ==
  \/ PollStart
  \/ \E h \in Heights : BlockNumberResponse(h)
  \/ \E error \in TransportErrors : BlockNumberFailure(error)
  \/ \E now \in Times : GetLogsResponse(now)
  \/ \E now \in Times, error \in TransportErrors : GetLogsFailure(now, error)
  \/ \E type \in { "certificateIssued", UnknownTriggerType } :
       SetTriggerType(type)

EditSpec == EditInit /\ [][EditNext]_vars

\* ---------------------------------------------------------- properties

\* The last poll has returned to the host without raising.
Returned == pc = "idle" /\ result.status \in { "null", "batch" }

\* The last poll got past the no-new-blocks check.
Scanned == fromBlock <= currentBlock

\* The window the last poll asked its decoder for, from the requests it sent.
RequestedFrom ==
  IF requests[2].method = "ewScan"
    THEN requests[2].params[1]
    ELSE hexToNumber(requests[2].params[1])

RequestedTo ==
  LET last == requests[Len(requests)]
  IN  CASE last.method = "ewScan" -> last.params[2]
        [] last.method = "eth_getLogs" -> hexToNumber(last.params[2])
        [] last.method = "eth_getBlockByNumber" -> hexToNumber(last.params[1])

\* C1 as claimed: after every poll that does not abort, whatever the cursor
\* it started from, lastBlockNumber equals the height H the node reported.
C1_AsClaimed ==
  Returned => workflowStaticData.lastBlockNumber = currentBlock

\* C1 amended: after a poll that does not abort and gets past the
\* no-new-blocks check (fromBlock <= H), lastBlockNumber equals H whether or
\* not events were found; a poll that stops at the check (fromBlock > H)
\* leaves the cursor as it was.
C1_AdvanceWhenScanned ==
  Returned =>
    IF Scanned
      THEN workflowStaticData.lastBlockNumber = currentBlock
      ELSE workflowStaticData = pollState

\* A poll found no event in a window of new blocks and moved the cursor to H.
C1_Witness ==
  /\ Returned /\ Scanned
  /\ result.status = "null" /\ events = << >>
  /\ pollState.lastBlockNumber > 0
  /\ pollState.lastBlockNumber < currentBlock
  /\ workflowStaticData.lastBlockNumber = currentBlock

\* C2 as claimed: a failing eth_blockNumber, eth_getLogs or
\* eth_getBlockByNumber aborts the poll with an error and leaves the three
\* cursor fields as they were.
C2_AsClaimed ==
  (pc = "idle"
   /\ failed \cap { "eth_blockNumber", "eth_getLogs", "eth_getBlockByNumber" } # { })
  => (result.status = "error" /\ workflowStaticData = pollState)

\* C2 amended: a failing eth_blockNumber or eth_getLogs aborts the poll with
\* an error, and a poll that aborts leaves the three cursor fields as they
\* were; a failing eth_getBlockByNumber is caught per block by
\* pollLargeTransfer and does not abort the poll.
C2_AbortLeavesCursor ==
  pc = "idle" =>
    /\ failed \cap { "eth_blockNumber", "eth_getLogs" } # { }
         => result.status = "error"
    /\ result.status = "error"
         => /\ workflowStaticData = pollState
            /\ result.error[1] = "Poll failed: "
    /\ "eth_getBlockByNumber" \in failed => result.status # "error"

\* eth_getLogs failed on a cursor that earlier polls had advanced and filled.
C2_Witness ==
  /\ pc = "idle"
  /\ "eth_getLogs" \in failed
  /\ result.status = "error"
  /\ workflowStaticData.lastBlockNumber > 0
  /\ workflowStaticData.lastTimestamp > 0
  /\ workflowStaticData.processedTxHashes # << >>
  /\ workflowStaticData = pollState

\* C3 as claimed: after a poll that does not abort, processedTxHashes is the
\* trailing 1000 entries of the hashes the poll started with followed by the
\* hashes of the events the poll emitted.
C3_AsClaimed ==
  Returned =>
    workflowStaticData.processedTxHashes =
      SubSeq(pollState.processedTxHashes \o Hashes(result.batch),
             Max(1, Len(pollState.processedTxHashes) + Len(result.batch)
                      - MaxProcessedTxHashes + 1),
             Len(pollState.processedTxHashes) + Len(result.batch))

\* C4 as claimed: a poll for which the node reports the height the cursor
\* already records returns null and leaves lastBlockNumber, for every cursor,
\* the initial one included.
C4_AsClaimed ==
  (Returned /\ currentBlock = pollState.lastBlockNumber)
  => (result.status = "null"
      /\ workflowStaticData.lastBlockNumber = pollState.lastBlockNumber)

\* C4 amended: a poll for which the node reports the height the cursor
\* records leaves lastBlockNumber as it was; when that height is above 0 the
\* poll returns null, sends no decoder request and changes no cursor field,
\* so the next poll at the same height does the same.  With lastBlockNumber
\* = 0 and height 0 block 0 is scanned and a batch may be returned.
C4_NoNewBlocks ==
  (Returned /\ currentBlock = pollState.lastBlockNumber)
  => /\ workflowStaticData.lastBlockNumber = pollState.lastBlockNumber
     /\ pollState.lastBlockNumber > 0
          => /\ result.status = "null"
             /\ Len(requests) = 1
             /\ workflowStaticData = pollState

\* A poll at the height the cursor records, on a cursor with hashes.
C4_Witness ==
  /\ Returned
  /\ result.status = "null"
  /\ pollState.lastBlockNumber > 0
  /\ currentBlock = pollState.lastBlockNumber
  /\ pollState.processedTxHashes # << >>

\* C5: whenever the computed fromBlock is above the reported height the poll
\* returns null without raising, has sent no request but eth_blockNumber, and
\* leaves every cursor field as it was.
C5_StaleHeightNoOp ==
  fromBlock > currentBlock
  => /\ pc = "idle"
     /\ result.status = "null"
     /\ requests = << Request("eth_blockNumber", << >>) >>
     /\ workflowStaticData = pollState

\* A poll for which the node reported a height below the cursor's.
C5_Witness ==
  /\ fromBlock > currentBlock + 1
  /\ pc = "idle"
  /\ result.status = "null"
  /\ workflowStaticData.processedTxHashes # << >>

\* C6: processedTxHashes never has more than 1000 entries, and after a poll
\* that emitted events the hash of the last event emitted is in it.
C6_DedupBound ==
  /\ Len(workflowStaticData.processedTxHashes) <= MaxProcessedTxHashes
  /\ (pc = "idle" /\ result.status = "batch")
       => result.batch[Len(result.batch)].transactionHash
            \in Range(workflowStaticData.processedTxHashes)

\* A poll emitted more events than the cursor keeps hashes.
C6_Witness ==
  /\ pc = "idle"
  /\ result.status = "batch"
  /\ Len(result.batch) > MaxProcessedTxHashes
  /\ Len(workflowStaticData.processedTxHashes) = MaxProcessedTxHashes

\* C7: a poll that starts from lastBlockNumber = 0 asks its decoder for the
\* window [max(0, H - lookbackBlocks), H].
C7_FirstPollLookback ==
  (pollState.lastBlockNumber = 0 /\ Len(requests) > 1)
  => /\ fromBlock =
          IF lookbackBlocks > currentBlock THEN 0
          ELSE currentBlock - lookbackBlocks
     /\ RequestedFrom = fromBlock
     /\ Returned => RequestedTo = currentBlock

\* A first poll with lookbackBlocks = 1 at height 2 scanned [1, 2].
C7_Witness ==
  /\ Returned
  /\ pollState.lastBlockNumber = 0
  /\ lookbackBlocks = 1
  /\ currentBlock = 2
  /\ RequestedFrom = 1
  /\ RequestedTo = 2
  /\ result.status = "batch"

\* C8 as claimed: from lastBlockNumber = L > 0 and H > L the window is
\* [L + 1, H], and the window of every scanning poll starts one block after
\* the window of the scanning poll before it ended.
C8_AsClaimed ==
  (Returned /\ Scanned)
  => /\ pollState.lastBlockNumber > 0
          => (RequestedFrom = pollState.lastBlockNumber + 1
              /\ RequestedTo = currentBlock)
     /\ pollState.lastTimestamp # 0
          => RequestedFrom = pollState.lastBlockNumber + 1

\* C9: a poll that does not abort returns null or a batch of at least one
\* event; when every candidate event is a duplicate it returns null and the
\* cursor is at H all the same, and otherwise it returns a batch.
C9_OutputShape ==
  Returned =>
    /\ result.status = "batch" => Len(result.batch) >= 1
    /\ Scanned =>
         IF \A i \in 1 .. Len(events) :
              events[i].transactionHash \in Range(pollState.processedTxHashes)
           THEN /\ result.status = "null"
                /\ workflowStaticData.lastBlockNumber = currentBlock
           ELSE result.status = "batch"

\* Every candidate of the window was a duplicate; the cursor moved on.
C9_Witness ==
  /\ Returned /\ Scanned
  /\ result.status = "null"
  /\ events # << >>
  /\ currentBlock > pollState.lastBlockNumber
  /\ workflowStaticData.lastBlockNumber = currentBlock

\* C10 as claimed: while the reported heights never decrease, every event of
\* a batch has a block number above that of every event of an earlier batch.
C10_AsClaimed ==
  (heightsAscend /\ result.status = "batch")
  => \A i \in 1 .. Len(result.batch) : result.batch[i].blockNumber > emittedMax

\* C11: when the EW Scan request of an assetRegistered poll raises, the poll
\* does not raise: it returns null, lastBlockNumber is the reported height H,
\* and the poll adds no hash to processedTxHashes.
C11_GracefulDegradation ==
  (pc = "idle" /\ "ewScan" \in failed)
  => /\ triggerType = "assetRegistered"
     /\ result = NullResult
     /\ workflowStaticData.lastBlockNumber = currentBlock
     /\ Range(workflowStaticData.processedTxHashes)
          \subseteq Range(pollState.processedTxHashes)

\* The indexer failed for a window of new blocks that held entries.
C11_Witness ==
  /\ pc = "idle"
  /\ "ewScan" \in failed
  /\ result = NullResult
  /\ pollState.lastBlockNumber > 0
  /\ pollState.lastBlockNumber < currentBlock
  /\ chain[currentBlock] # "empty"
  /\ workflowStaticData.lastBlockNumber = currentBlock

\* C12 as claimed: whenever filterAddress is not empty, a transfer log of the
\* window is emitted exactly when its from (topic 2) or its to (topic 3)
\* equals filterAddress without regard to case.
C12_AsClaimed ==
  (Returned /\ Scanned /\ triggerType = "certificateTransferred"
   /\ filterAddress # EmptyString)
  => LET logs ==
           NodeGetLogs(chain, [ fromBlock |-> numberToHex(fromBlock),
                                toBlock |-> numberToHex(currentBlock) ])
     IN  \A k \in 1 .. Len(logs) :
           (\E i \in 1 .. Len(events) :
              /\ events[i].transactionHash = logs[k].transactionHash
              /\ events[i].logIndex = hexToNumber(logs[k].logIndex))
           <=> \/ toLowerCase(TopicAddress(logs[k], 2)) = toLowerCase(filterAddress)
               \/ toLowerCase(TopicAddress(logs[k], 3)) = toLowerCase(filterAddress)

\* C12 amended: when filterAddress is a well-formed address, a transfer log
\* of the window is emitted exactly when its from or its to equals
\* filterAddress without regard to case; when filterAddress is empty or is
\* not a well-formed address, every log of the window is emitted.
C12_TransferFilter ==
  (Returned /\ Scanned /\ triggerType = "certificateTransferred")
  => LET logs ==
           NodeGetLogs(chain, [ fromBlock |-> numberToHex(fromBlock),
                                toBlock |-> numberToHex(currentBlock) ])
     IN  \A k \in 1 .. Len(logs) :
           (\E i \in 1 .. Len(events) :
              /\ events[i].eventType = "certificateTransferred"
              /\ events[i].blockNumber = hexToNumber(logs[k].blockNumber)
              /\ events[i].transactionHash = logs[k].transactionHash
              /\ events[i].logIndex = hexToNumber(logs[k].logIndex))
           <=> \/ filterAddress = EmptyString
               \/ ~ isValidAddress(filterAddress)
               \/ toLowerCase(TopicAddress(logs[k], 2)) = toLowerCase(filterAddress)
               \/ toLowerCase(TopicAddress(logs[k], 3)) = toLowerCase(filterAddress)

\* With filterAddress 0xBB.. a transfer from 0xAA.. to 0xbb.. was emitted and
\* the other log of its block was suppressed.
C12_Witness ==
  /\ Returned /\ Scanned
  /\ triggerType = "certificateTransferred"
  /\ filterAddress = Prefix0x("BB")
  /\ chain[currentBlock] = "pair"
  /\ \E i \in 1 .. Len(events) :
        events[i].blockNumber = currentBlock /\ events[i].logIndex = 0
  /\ ~ \E i \in 1 .. Len(events) :
          events[i].blockNumber = currentBlock /\ events[i].logIndex = 1

\* C13 as claimed: for every transferThreshold T, when a largeTransfer poll
\* is over and none of its transport calls has failed, a transaction of the
\* window is a candidate event exactly when its value is at least
\* T * 10^18 wei and it passes the address filter.
C13_AsClaimed ==
  (pc = "idle" /\ result.status # "none" /\ Scanned
   /\ triggerType = "largeTransfer" /\ failed = { })
  => \A blk \in fromBlock .. currentBlock :
       LET txs == BlockTxs(chain, blk)
       IN  \A k \in 1 .. Len(txs) :
             (\E i \in 1 .. Len(events) :
                /\ events[i].transactionHash = txs[k].hash
                /\ events[i].blockNumber = blk)
             <=> /\ \/ 10 * txs[k].value.ewt
                          > 10 * transferThreshold.whole + transferThreshold.tenths
                    \/ /\ 10 * txs[k].value.ewt
                            = 10 * transferThreshold.whole + transferThreshold.tenths
                       /\ txs[k].value.rem >= 0
                 /\ \/ ~ FilterApplies(filterAddress)
                    \/ toLowerCase(txs[k].from) = toLowerCase(filterAddress)
                    \/ toLowerCase(txs[k].to) = toLowerCase(filterAddress)

\* C14: a poll ends with an error exactly when an error reached its catch;
\* that is one error, raised by the chain-height fetch, by eth_getLogs, by
\* the threshold conversion or for an unknown trigger type, and the error
\* the host sees has the message 'Poll failed: ' followed by its message.
C14_PollFailedMessage ==
  pc = "idle" =>
    /\ result.status = "error" <=> thrown # << >>
    /\ failed \cap { "eth_blockNumber", "eth_getLogs" } # { }
         => result.status = "error"
    /\ (Scanned /\ triggerType = UnknownTriggerType /\ failed = { }
          /\ result.status # "none")
         => result.status = "error"
    /\ result.status = "error"
         => /\ Len(thrown) = 1
            /\ thrown[1].instanceofError
            /\ result.error = << "Poll failed: ", thrown[1].message >>
            /\ result.batch = << >>

\* eth_getLogs failed with 'socket hang up' and the host saw that message.
C14_Witness ==
  /\ pc = "idle"
  /\ "eth_getLogs" \in failed
  /\ pollState.lastBlockNumber > 0
  /\ result.status = "error"
  /\ result.error = << "Poll failed: ", << "socket hang up" >> >>

\* C15: numberToHex(n) is '0x' followed by the lowercase base-16 digits of
\* n without leading zeros, and hexToNumber gives n back from it.
C15_HexRoundTrip ==
  /\ call.fn = "numberToHex" =>
       LET hex == call.out
           digits == SubSeq(hex, 3, Len(hex))
           lower == << "0", "1", "2", "3", "4", "5", "6", "7",
                       "8", "9", "a", "b", "c", "d", "e", "f" >>
           digit(c) == (CHOOSE i \in 1 .. 16 : lower[i] = c) - 1
           value[ i \in 0 .. Len(digits) ] ==
             IF i = 0 THEN 0 ELSE 16 * value[i - 1] + digit(digits[i])
       IN  /\ Len(hex) >= 3
           /\ hex[1] = "0" /\ hex[2] = "x"
           /\ \A i \in 1 .. Len(digits) : digits[i] \in Range(lower)
           /\ Len(digits) > 1 => digits[1] # "0"
           /\ value[Len(digits)] = call.input
           /\ call.input = 0 => hex = << "0", "x", "0" >>
           /\ call.input = 16 => hex = << "0", "x", "1", "0" >>
           /\ call.input = 255 => hex = << "0", "x", "f", "f" >>
  /\ call.fn = "hexToNumber" => call.out = call.input

\* numberToHex(255) gave '0xff' and hexToNumber gave 255 back.
C15_Witness ==
  /\ call.fn = "hexToNumber"
  /\ call.input = 255
  /\ call.arg = << "0", "x", "f", "f" >>
  /\ call.out = 255

C17_DedupAgainstCursor ==
  (Returned /\ Scanned)
  => LET processed == Range(pollState.processedTxHashes)
         returned == Range(result.batch)
         candidates == Range(events)
     IN  /\ \A e \in returned : e.transactionHash \notin processed
         /\ \A e \in candidates : e.transactionHash \notin processed => e \in returned
         /\ returned \subseteq candidates

\* A poll dropped the candidates of a block it had emitted before and
\* returned those of a new block.
C17_Witness ==
  /\ Returned /\ Scanned
  /\ result.status = "batch"
  /\ pollState.processedTxHashes # << >>
  /\ Len(result.batch) < Len(events)
  /\ \E i \in 1 .. Len(events) :
        events[i].transactionHash \in Range(pollState.processedTxHashes)

\* C18: while a poll waits on a transport call, in poll itself or in a
\* decoder, the persisted cursor is what it was when the poll started; the
\* cursor changes only in the step that ends a poll without an error, and
\* that step writes lastBlockNumber, lastTimestamp and processedTxHashes
\* together.
C18_CursorWrittenLast ==
  /\ [](pc # "idle" => workflowStaticData = pollState)
  /\ [][ workflowStaticData' # workflowStaticData
          => /\ pc # "idle" /\ pc' = "idle"
             /\ result'.status \in { "null", "batch" }
             /\ workflowStaticData'.lastBlockNumber = currentBlock
             /\ workflowStaticData'.lastTimestamp \in Times
             /\ workflowStaticData'.processedTxHashes =
                  SubSeq(Hashes(result'.batch),
                         Max(1, Len(result'.batch) - MaxProcessedTxHashes + 1),
                         Len(result'.batch)) ]_vars

\* pollLargeTransfer has events from a fetched block and waits for the next
\* block; the cursor is still the one the poll started with.
C18_Witness ==
  /\ pc = "eth_getBlockByNumber"
  /\ Len(requests) > 2
  /\ events # << >>
  /\ workflowStaticData = pollState
  /\ workflowStaticData.lastBlockNumber < currentBlock

\* C19: when a largeTransfer poll whose height fetch succeeded is over, it
\* has not raised, the cursor is at H, every block of [fromBlock, H] was
\* asked for exactly once in ascending order, a block whose fetch failed
\* contributes no event, and every transaction of at least the threshold in
\* every other block is a candidate event.
C19_PartialBatchFailure ==
  (pc = "idle" /\ triggerType = "largeTransfer" /\ result.status # "none"
   /\ Scanned /\ "eth_blockNumber" \notin failed
   /\ transferThreshold.tenths = 0)
  => /\ result.status \in { "null", "batch" }
     /\ workflowStaticData.lastBlockNumber = currentBlock
     /\ Len(requests) = currentBlock - fromBlock + 2
     /\ \A i \in 2 .. Len(requests) :
          requests[i] = [ method |-> "eth_getBlockByNumber",
                          params |-> << numberToHex(fromBlock + i - 2) >> ]
     /\ failedBlocks \subseteq fromBlock .. currentBlock
     /\ \A blk \in fromBlock .. currentBlock :
          LET txs == BlockTxs(chain, blk)
          IN  \A k \in 1 .. Len(txs) :
                (\E i \in 1 .. Len(events) :
                   /\ events[i].transactionHash = txs[k].hash
                   /\ events[i].blockNumber = blk)
                <=> /\ blk \notin failedBlocks
                    /\ \/ txs[k].value.ewt > transferThreshold.whole
                       \/ /\ txs[k].value.ewt = transferThreshold.whole
                          /\ txs[k].value.rem >= 0

\* In a window of two batches the fetch of the last block of the first batch
\* failed; the transfers of the first block of the second batch were
\* returned and the cursor is at H.
C19_Witness ==
  /\ pc = "idle"
  /\ fromBlock = 0
  /\ currentBlock = batchSize + 1
  /\ failedBlocks = { batchSize - 1 }
  /\ chain[batchSize - 1] = "pair"
  /\ chain[batchSize] = "pair"
  /\ result.status = "batch"
  /\ \E i \in 1 .. Len(result.batch) : result.batch[i].blockNumber = batchSize
  /\ ~ \E i \in 1 .. Len(result.batch) : result.batch[i].blockNumber = batchSize - 1
  /\ workflowStaticData.lastBlockNumber = currentBlock

\* C20 as claimed: once a poll has completed without aborting (the cursor
\* carries its timestamp), a later poll that scans starts its window one
\* block after lastBlockNumber and does not compute it from lookbackBlocks,
\* whatever the heights reported, height 0 included.
C20_AsClaimed ==
  (pollState.lastTimestamp # 0 /\ Len(requests) > 1)
  => /\ fromBlock = pollState.lastBlockNumber + 1
     /\ RequestedFrom = pollState.lastBlockNumber + 1

\* C22: the batch a poll returns is the candidate sequence of its decoder
\* with some candidates left out, in the same order.  The candidates of a
\* log-based decoder are in the order in which the node or the indexer
\* returns logs: by block, within a block by transaction, within a
\* transaction by log index.  The candidates of largeTransfer are in
\* ascending block number and, within a block, in the order of the
\* transactions of the block.
C22_WithinPollOrder ==
  (Returned /\ Scanned)
  => LET returned == Range(result.batch)
         Before(e, f) ==
           \/ e.blockNumber < f.blockNumber
           \/ /\ e.blockNumber = f.blockNumber
              /\ e.transactionHash[2] < f.transactionHash[2]
           \/ /\ triggerType # "largeTransfer"
              /\ e.blockNumber = f.blockNumber
              /\ e.transactionHash = f.transactionHash
              /\ e.logIndex < f.logIndex
     IN  /\ result.batch = SelectSeq(events, LAMBDA e : e \in returned)
         /\ \A i \in 1 .. Len(events) - 1 : Before(events[i], events[i + 1])
         /\ \A i \in 1 .. Len(events) :
              /\ events[i].blockNumber = events[i].transactionHash[1]
              /\ events[i].blockNumber \in fromBlock .. currentBlock

\* A poll returned the events of two blocks in block order after dropping
\* the candidates of a block it had emitted before.
C22_Witness ==
  /\ Returned /\ Scanned
  /\ result.status = "batch"
  /\ Len(result.batch) < Len(events)
  /\ Len(result.batch) >= 2
  /\ result.batch[1].blockNumber < result.batch[Len(result.batch)].blockNumber

\* C23 as claimed: a log of the window is a didCreated candidate only if
\* its identity equals its owner without regard to case and, whenever
\* filterAddress is not empty, its identity equals filterAddress without
\* regard to case.
C23_AsClaimed ==
  (Returned /\ Scanned /\ triggerType = "didCreated")
  => LET logs == LogsInRange(chain, fromBlock, currentBlock)
     IN  \A k \in 1 .. Len(logs) :
           (\E i \in 1 .. Len(events) :
              /\ events[i].transactionHash = logs[k].transactionHash
              /\ events[i].logIndex = hexToNumber(logs[k].logIndex))
           => /\ toLowerCase(TopicAddress(logs[k], 1))
                   = toLowerCase(DataOwner(logs[k]))
              /\ filterAddress # EmptyString
                   => toLowerCase(TopicAddress(logs[k], 1))
                        = toLowerCase(filterAddress)

\* C23 amended: a log of the window is a didCreated candidate exactly when
\* its identity equals its owner without regard to case and, if
\* filterAddress is a well-formed address, its identity equals filterAddress
\* without regard to case; a filterAddress that is empty or not well formed
\* filters nothing.
C23_DidCreatedFilter ==
  (Returned /\ Scanned /\ triggerType = "didCreated")
  => LET logs == LogsInRange(chain, fromBlock, currentBlock)
     IN  \A k \in 1 .. Len(logs) :
           (\E i \in 1 .. Len(events) :
              /\ events[i].eventType = "didCreated"
              /\ events[i].blockNumber = hexToNumber(logs[k].blockNumber)
              /\ events[i].transactionHash = logs[k].transactionHash
              /\ events[i].logIndex = hexToNumber(logs[k].logIndex))
           <=> /\ toLowerCase(TopicAddress(logs[k], 1))
                    = toLowerCase(DataOwner(logs[k]))
               /\ \/ filterAddress = EmptyString
                  \/ ~ isValidAddress(filterAddress)
                  \/ toLowerCase(TopicAddress(logs[k], 1))
                       = toLowerCase(filterAddress)

\* With filterAddress 0xaa.. the log whose identity 0xaa.. equals its owner
\* 0xAA.. was emitted and the log of the same block whose owner is another
\* address was not.
C23_Witness ==
  /\ Returned /\ Scanned
  /\ triggerType = "didCreated"
  /\ filterAddress = Prefix0x("aa")
  /\ chain[currentBlock] = "pair"
  /\ \E i \in 1 .. Len(events) :
        events[i].blockNumber = currentBlock /\ events[i].logIndex = 0
  /\ ~ \E i \in 1 .. Len(events) :
          events[i].blockNumber = currentBlock /\ events[i].logIndex = 1

\* C25: no step of a poll, whether the poll scans a window, finds no new
\* block or is aborted, and whatever height the node reports, lowers the
\* lastBlockNumber of the cursor.
C25_CursorNeverDecreases ==
  [][workflowStaticData'.lastBlockNumber
       >= workflowStaticData.lastBlockNumber]_vars

\* A poll was over for which the node had reported a height below the
\* cursor's lastBlockNumber, a height lower than one it had reported before.
C25_Witness ==
  /\ Returned
  /\ failed = { }
  /\ currentBlock < workflowStaticData.lastBlockNumber
  /\ ~ heightsAscend

\* C26 as claimed: while the reported heights never decrease, no event of a
\* batch has a transactionHash that a batch of an earlier poll contained.
C26_AsClaimed ==
  (heightsAscend /\ result.status = "batch")
  => \A k \in 1 .. Len(result.batch) :
       result.batch[k].transactionHash \notin delivered

\* C27 as claimed: when two candidate events of a poll that scanned its
\* window have the same transactionHash and the cursor read by the poll does
\* not hold it, every candidate with that hash is in the batch and
\* processedTxHashes holds the hash as many times as there are such
\* candidates.
C27_AsClaimed ==
  (Returned /\ Scanned)
  => \A i \in 1 .. Len(events) - 1 :
       LET h == events[i].transactionHash
           Count(seq) == Cardinality({ k \in 1 .. Len(seq) : seq[k] = h })
       IN  ( /\ events[i + 1].transactionHash = h
             /\ h \notin Range(pollState.processedTxHashes) )
           => /\ \A k \in 1 .. Len(events) :
                   events[k].transactionHash = h
                     => events[k] \in Range(result.batch)
              /\ Count(workflowStaticData.processedTxHashes)
                   = Count(Hashes(events))

\* C27 amended: under the same conditions every candidate with that hash is
\* in the batch, and processedTxHashes holds the hash once per event with
\* that hash among the last MaxProcessedTxHashes events of the batch: once
\* per candidate when the batch has at most MaxProcessedTxHashes events.
C27_NoDedupWithinBatch ==
  (Returned /\ Scanned)
  => \A i \in 1 .. Len(events) - 1 :
       LET h == events[i].transactionHash
           Count(seq) == Cardinality({ k \in 1 .. Len(seq) : seq[k] = h })
           dropped == Max(0, Len(result.batch) - MaxProcessedTxHashes)
       IN  ( /\ events[i + 1].transactionHash = h
             /\ h \notin Range(pollState.processedTxHashes) )
           => /\ \A k \in 1 .. Len(events) :
                   events[k].transactionHash = h
                     => events[k] \in Range(result.batch)
              /\ Count(workflowStaticData.processedTxHashes)
                   = Count(SubSeq(Hashes(result.batch), dropped + 1,
                                  Len(result.batch)))
              /\ Len(result.batch) <= MaxProcessedTxHashes
                   => Count(workflowStaticData.processedTxHashes)
                        = Count(Hashes(events))

\* Two logs of one transaction were new candidates of a poll: both were
\* returned and the cursor holds their hash twice.
C27_Witness ==
  /\ Returned /\ Scanned
  /\ Len(result.batch) = 2
  /\ result.batch[1].transactionHash = result.batch[2].transactionHash
  /\ result.batch[1].logIndex # result.batch[2].logIndex
  /\ workflowStaticData.processedTxHashes
       = << result.batch[1].transactionHash, result.batch[1].transactionHash >>

\* C28: when filterAddress is not empty and is not a well-formed address, a
\* poll whose transport calls all succeed does not raise, and the candidate
\* events of its decoder, whichever of the six it is, are those the decoder
\* yields for the same window with an empty filterAddress.
C28_MalformedFilterIgnored ==
  ( /\ pc = "idle"
    /\ requests # << >>
    /\ Scanned
    /\ failed = { }
    /\ filterAddress \in { Prefix0x(d) : d \in MalformedDigits }
    /\ ~ (triggerType = "largeTransfer" /\ BigIntThrows(transferThreshold)) )
  => /\ Returned
     /\ events =
          CASE triggerType \in LogTriggerTypes ->
                 DecodeLogs(triggerType,
                            LogsInRange(chain, fromBlock, currentBlock),
                            EmptyString)
            [] triggerType = "assetRegistered" ->
                 pollAssetRegistered(
                   EwScanItems(chain, [ from_block |-> fromBlock,
                                        to_block |-> currentBlock ]),
                   EmptyString)
            [] triggerType = "largeTransfer" ->
                 LET RECURSIVE Transfers(_)
                     Transfers(blk) ==
                       IF blk > currentBlock THEN << >>
                       ELSE LargeTransfersOfBlock(
                              NodeGetBlock(chain, numberToHex(blk)),
                              EmptyString, transferThreshold)
                            \o Transfers(blk + 1)
                 IN  Transfers(fromBlock)

\* With the malformed filterAddress 0xzz.. a poll returned events although
\* no address of any log or transaction equals it.
C28_Witness ==
  /\ Returned /\ Scanned
  /\ failed = { }
  /\ filterAddress = Prefix0x("zz")
  /\ events # << >>
  /\ result.status = "batch"

\* C29: a poll with a triggerType that is none of the six kinds, whose
\* chain-height fetch succeeded, has sent the eth_blockNumber request and no
\* other, and has left the cursor as it found it; if its window was not
\* empty it raised 'Poll failed: Unknown trigger type: ' followed by the
\* type, and if its window was empty (fromBlock above the height) it returned
\* null.
C29_UnknownTriggerType ==
  ( /\ pc = "idle"
    /\ requests # << >>
    /\ failed = { }
    /\ triggerType = UnknownTriggerType )
  => /\ requests = << Request("eth_blockNumber", << >>) >>
     /\ workflowStaticData = pollState
     /\ IF fromBlock > currentBlock
          THEN result = NullResult
          ELSE result =
                 [ status |-> "error",
                   batch |-> << >>,
                   error |-> << "Poll failed: ",
                                << "Unknown trigger type: ",
                                   UnknownTriggerType >> >> ]

\* A poll for an unknown trigger type found new blocks above the cursor that
\* polls for certificateIssued had left, and raised.
C29_Witness ==
  /\ pc = "idle"
  /\ failed = { }
  /\ triggerType = UnknownTriggerType
  /\ pollState.lastBlockNumber > 0
  /\ fromBlock = pollState.lastBlockNumber + 1
  /\ fromBlock <= currentBlock
  /\ result.status = "error"
  /\ workflowStaticData = pollState

\* C30: execute takes the items in input order, one at a time.  With
\* continueOnFail on it never raises and returns one record per item, in
\* input order: the result of the item, or, if the operation failed for the
\* item, one error record with the message of the failure, paired with the
\* item.  With continueOnFail off it returns the results of all items if none
\* failed, and otherwise raises the error of the first item that failed and
\* returns nothing, although the results of the items before are in
\* returnData.
C30_PerItemErrorPolicy ==
  LET Result(record, k) ==
        \E balanceHex \in Balances :
          record = BalanceRecord(inputData[k], balanceHex)
      Failure(record, k) ==
        /\ DOMAIN record = { "json", "pairedItem" }
        /\ record.pairedItem = [ item |-> k - 1 ]
        /\ DOMAIN record.json = { "error" }
      Raises(k) == OperationError(operation, inputData[k]) # << >>
      Finished == executePc = "idle" /\ executed.status # "none"
  IN  /\ ( executePc = "eth_getBalance"
             => /\ itemIndex < Len(inputData)
                /\ ~ Raises(itemIndex + 1)
                /\ Len(returnData) = itemIndex
                /\ \A k \in 1 .. itemIndex :
                     \/ Result(returnData[k], k)
                     \/ continueOnFail /\ Failure(returnData[k], k) )
      /\ ( (Finished /\ continueOnFail)
             => /\ executed.status = "output"
                /\ Len(executed.data) = Len(inputData)
                /\ \A k \in 1 .. Len(inputData) :
                     /\ \/ Result(executed.data[k], k)
                        \/ Failure(executed.data[k], k)
                     /\ Raises(k)
                          => /\ Failure(executed.data[k], k)
                             /\ executed.data[k].json.error
                                  = OperationError(operation,
                                                   inputData[k])[1].message )
      /\ ( (Finished /\ ~ continueOnFail)
             => /\ executed.status \in { "output", "error" }
                /\ (\E k \in 1 .. Len(inputData) : Raises(k))
                     => executed.status = "error"
                /\ executed.status = "output"
                     => /\ Len(executed.data) = Len(inputData)
                        /\ \A k \in 1 .. Len(inputData) :
                             Result(executed.data[k], k)
                /\ executed.status = "error"
                     => /\ executed.data = << >>
                        /\ Len(executed.error) = 1
                        /\ itemIndex < Len(inputData)
                        /\ Len(returnData) = itemIndex
                        /\ \A k \in 1 .. itemIndex :
                             ~ Raises(k) /\ Result(returnData[k], k)
                        /\ Raises(itemIndex + 1)
                             => executed.error
                                  = OperationError(operation,
                                      inputData[itemIndex + 1]) )

\* With continueOnFail on, the second of three items had a malformed address
\* and the request for the third failed: the execution returned the result
\* of the first item and error records paired with the second and the third.
C30_Witness ==
  /\ executePc = "idle"
  /\ continueOnFail
  /\ operation = "getBalance"
  /\ inputData = << Prefix0x("aa"), Prefix0x("zz"), Prefix0x("aa") >>
  /\ executed.status = "output"
  /\ Len(executed.data) = 3
  /\ executed.data[1] = BalanceRecord(Prefix0x("aa"), numberToHex(26))
  /\ executed.data[2] =
       ErrorRecord(ErrorOf(<< "Invalid Ethereum address format" >>), 1)
  /\ executed.data[3] = ErrorRecord(ErrorOf(<< "socket hang up" >>), 2)

\* C24: whoever calls the RPC client, a poll of the trigger, an execution
\* of the action node or another caller, and in whatever order the calls
\* and their answers or failures come, no step lowers rpcRequestId, and the
\* ids a call gives to its requests are the values of the counter from its
\* value before the call up to one below its value after the call, one per
\* request and in the order of the requests; every id given out is below
\* the counter.  So no id is given twice and the ids rise in issue order.
C24_RequestIdCounter ==
  /\ [] ( \A k \in 1 .. Len(issued) : issued[k] < rpcRequestId )
  /\ [][ /\ rpcRequestId' >= rpcRequestId
         /\ (rpcRequestId' # rpcRequestId \/ issued' # issued)
              => issued' = [ k \in 1 .. rpcRequestId' - rpcRequestId |->
                               rpcRequestId + k - 1 ] ]_vars

\* A poll took id 1 for eth_blockNumber, a batch call of another caller took
\* ids 2 and 3 and failed, and the poll took id 4 for eth_getLogs.
C24_Witness ==
  /\ pc = "eth_getLogs"
  /\ call.fn = "executeBatchRpcRequest"
  /\ call.arg = << 2, 3 >>
  /\ call.out[1] = "NodeApiError"
  /\ issued = << 4 >>
  /\ rpcRequestId = 5

\* C21 as claimed: once the other instance has polled, no step of a poll of
\* the running instance changes anything of the other instance or any
\* variable a poll of the other instance has read or written, the module
\* variables licensingNoticeShown and rpcRequestId among them.
C21_AsClaimed ==
  [][ (running' = running /\ parked.requests # << >>)
        => /\ parked' = parked
           /\ licensingNoticeShown' = licensingNoticeShown
           /\ rpcRequestId' = rpcRequestId ]_vars

\* C21 amended: the cursor of a trigger instance, its node parameters, the
\* locals of its polls and what its polls returned change only in steps of
\* its own polls; going from the poll of one instance to the poll of the
\* other changes nothing of either.  What the polls of the two instances
\* share are the module variables licensingNoticeShown and rpcRequestId.
C21_InstanceIsolation ==
  [][ /\ running' = running => parked' = parked
      /\ running' # running
           => /\ parked' = InstanceState(running)
              /\ running' = parked.instance
              /\ InstanceState(0)' = [ parked EXCEPT !.instance = 0 ]
              /\ licensingNoticeShown' = licensingNoticeShown
              /\ rpcRequestId' = rpcRequestId ]_vars

\* The polls of the two instances have interleaved: the one that runs has
\* finished a poll that moved its cursor while the poll of the other awaits
\* eth_getLogs, and their cursors differ.
C21_Witness ==
  /\ parked.instance # 0
  /\ parked.pc = "eth_getLogs"
  /\ pc = "idle"
  /\ result.status = "batch"
  /\ pollState.lastBlockNumber < workflowStaticData.lastBlockNumber
  /\ parked.workflowStaticData # workflowStaticData
  /\ parked.workflowStaticData.lastBlockNumber > 0
  /\ Len(requests) = 2

====
